---- MODULE Spec2Model ----
\* Model of the installer lifecycle of lib/install/install.go:
\* the execution token that gates Installer.Execute, Installer.Run and the
\* stop / abort teardown paths, the stopper / aborter registries, the
\* local agent's serve loop and the operation interface the engine drives,
\* and of the cluster configuration commands of
\* tool/gravity/cli/clusterconfig.go.
\*
\* The state holds what the installer keeps or causes, the persisted plan
\* and operation, and the error the last request returned.
EXTENDS Integers, Sequences, FiniteSets, TLC

\* ---------------------------------------------------------------------
\* Bounds of the model
\* ---------------------------------------------------------------------
\* number of Installer.Execute calls issued over the installer's lifetime
NumCalls == 2
\* number of those calls that are issued while the engine's use of the
\* Interface is followed
NumEngineCalls == 1
\* number of handlers that get registered in one registry
MaxHandlers == 2
\* number of times startAgent gets to spawn a serve loop
MaxAgentStarts == 2
\* phases of the operation plan
NumPhases == 2

Calls == 1..NumCalls
EngineCalls == 1..NumEngineCalls
HandlerIds == 1..MaxHandlers
Chans == 1..MaxAgentStarts

\* ---------------------------------------------------------------------
\* Program constants
\* ---------------------------------------------------------------------
\* capacity of the executeSema channel: make(chan struct{}, 1)
SemaCapacity == 1
\* capacity of errC and of agentErrC: make(chan error, 1)
ErrChanCapacity == 1

VARIABLES
    executeSema,    \* number of tokens buffered in i.executeSema
    callPc,         \* position of each Execute call
    callCtxDone,    \* the request context of the call is cancelled
    callAcquired,   \* the call's send on executeSema went through
    callPhase,      \* the phase argument of a waiting call: "nil" or "phase"
    callIter,       \* stoppers still to invoke by the call's wait()
    ctxDone,        \* i.ctx is cancelled
    stoppers,       \* i.stoppers
    aborters,       \* i.aborters
    waitInvoked,    \* per stopper, how often a wait() invoked it
    waitsRun,       \* number of wait() calls that iterated the stoppers
    events,         \* status of the events handed to i.server.Send
    coErr,          \* the error the last completeOperation returned
    agent,          \* i.agent != nil
    agentErrC,      \* i.agentErrC: 0 is the nil channel
    chanBuf,        \* contents of every channel startAgent made
    loops,          \* the serve loop spawned with each channel
    loopResult,     \* what ServeWithToken returned in each loop
    agentStopped,   \* i.agent.Stop was called
    doneClosed,     \* i.doneC is closed
    errC,           \* errC of Run: the result of server.Run
    serverState,    \* "new", "running", "terminated"
    serverResult,   \* what server.Run returned
    serverStopped,  \* i.server.Stop was called
    procShutdown,   \* i.config.Process.Shutdown was called
    runPc,          \* position of Run
    runChan,        \* the agentErrC operand Run's select evaluated
    runCause,       \* the select case Run returned through
    runErr,         \* the error Run returns
    tdStarts,       \* teardown paths started by Run's deferred function
    tdPc,           \* position inside the teardown path
    tdList,         \* the list the path's range loop evaluated
    tdIter,         \* handlers still to invoke by the running range loop
    tdErrors,       \* errors collected by the teardown path
    tdResult,       \* error returned by stopWithContext / abortWithContext
    tdLog,          \* steps performed by the teardown path, in order
    opState,        \* state of the operation record: "none" when there is none
    planExists,     \* a plan of the operation is persisted
    plan,           \* persisted state of every phase of the plan
    cmd,            \* the last request served, with its arguments
    fsmOps,         \* calls the last request made on the engine and the FSM
    ret,            \* the error the last request returned
    opResult,       \* the last newOperation call: the operator's answer and the result
    opsCreated      \* number of operations the operator created for updateConfig

callVars == <<callPc, callCtxDone, callAcquired, callPhase, callIter>>
regVars == <<stoppers, aborters>>
waitVars == <<waitInvoked, waitsRun>>
agentVars == <<agent, agentErrC, chanBuf, loops, loopResult, agentStopped>>
serverVars == <<errC, serverState, serverResult, serverStopped, procShutdown, doneClosed>>
runVars == <<runPc, runChan, runCause, runErr>>
tdVars == <<tdStarts, tdPc, tdList, tdIter, tdErrors, tdResult, tdLog>>
opsVars == <<opState, planExists, plan, cmd, fsmOps, ret, opResult, opsCreated>>

vars == <<executeSema, callVars, ctxDone, regVars, waitVars, events, coErr,
          agentVars, serverVars, runVars, tdVars, opsVars>>

\* ---------------------------------------------------------------------
\* Errors
\* ---------------------------------------------------------------------
NoErr == [kind |-> "nil", wraps |-> 0]
Err(k) == [kind |-> k, wraps |-> 0]

\* what server.Run returns: nil, an abort-class error or another error
ServerResults == {NoErr, Err("aborted"), Err("other")}
\* what ServeWithToken returns: nil (the agent was shut down) or an error
AgentResults == {NoErr, Err("other")}

\* trace.Wrap: nil stays nil, an error gets one more layer of trace
TraceWrap(e) == IF e.kind = "nil" THEN e ELSE [e EXCEPT !.wraps = @ + 1]

\* installpb.IsAbortedErr: true for the kind aborted, wrapped or not
IsAbortedErr(e) == e.kind = "aborted"

\* trace.NewAggregate: nil for no errors, else the aggregate of the list
NewAggregate(errs) ==
    IF errs = <<>> THEN NoErr ELSE [kind |-> "aggregate", wraps |-> 0, errs |-> errs]

\* the event a teardown step leaves in the log
Step(e) == [ev |-> e, h |-> 0, failed |-> FALSE]
HandlerStep(id, f) == [ev |-> "handler", h |-> id, failed |-> f]

\* ---------------------------------------------------------------------
\* The operation plan and the FSM
\* ---------------------------------------------------------------------
PhaseIds == 1..NumPhases
PhaseStates == {"unstarted", "in-progress", "completed", "failed", "rolled-back"}

\* a plan as it is created: a list of phases, none of them started
NewPlan == [id \in PhaseIds |-> "unstarted"]

\* the phases of the list depend on one another in the order of the list
Requires(id) == IF id = 1 THEN {} ELSE {id - 1}
RequiresMet(p, id) == \A r \in Requires(id) : p[r] = "completed"

\* fsm.Params; a field left out of the literal has its zero value
Params(id, force, dryRun) == [PhaseID |-> id, Force |-> force, DryRun |-> dryRun]
NoParams == Params(0, FALSE, FALSE)

\* what a call on the FSM leaves: the plan, the returned error and the
\* phases whose work the call invoked, in the order of the invocations
FsmResult(p, e) == [plan |-> p, err |-> e, ran |-> <<>>]
Ran(id, r) == [r EXCEPT !.ran = <<id>> \o @]

\* a call on the engine or the FSM, as the log of a request records it
FsmOp(name, params, e) == [op |-> name, params |-> params, err |-> e, ran |-> <<>>]
Worked(o, ran) == [o EXCEPT !.ran = ran]

\* FSM.ExecutePhase: the phases required must be completed unless forced;
\* a dry run only logs; else the work of the named phase runs and its
\* outcome is persisted
ExecutePhase(p, params, ok) ==
    IF ~params.Force /\ ~RequiresMet(p, params.PhaseID)
    THEN FsmResult(p, Err("precondition-failed"))
    ELSE IF params.DryRun THEN FsmResult(p, NoErr)
    ELSE IF ok
    THEN Ran(params.PhaseID, FsmResult([p EXCEPT ![params.PhaseID] = "completed"], NoErr))
    ELSE Ran(params.PhaseID,
             FsmResult([p EXCEPT ![params.PhaseID] = "failed"], Err("phase-failed")))

\* FSM.RollbackPhase: a completed phase is rolled back, any other only
\* when forced; a dry run only logs
RollbackPhase(p, params, ok) ==
    IF ~params.Force /\ p[params.PhaseID] # "completed"
    THEN FsmResult(p, Err("precondition-failed"))
    ELSE IF params.DryRun THEN FsmResult(p, NoErr)
    ELSE IF ok
    THEN Ran(params.PhaseID, FsmResult([p EXCEPT ![params.PhaseID] = "rolled-back"], NoErr))
    ELSE Ran(params.PhaseID,
             FsmResult([p EXCEPT ![params.PhaseID] = "failed"], Err("phase-failed")))

\* the states of a phase that is still to be run: not started, left in
\* progress by a run that was killed, or failed
Incomplete == {"unstarted", "in-progress", "failed"}

\* FSM.ExecutePlan from phase id on: every phase that is still to be run
\* and whose requirements are met is run, in the order of the plan; the
\* work of phase failAt fails, which halts the plan
RECURSIVE ExecuteFrom(_, _, _)
ExecuteFrom(p, id, failAt) ==
    IF id > NumPhases
    THEN FsmResult(p, IF \E k \in PhaseIds : p[k] = "failed"
                      THEN Err("phase-failed") ELSE NoErr)
    ELSE IF p[id] \in Incomplete /\ RequiresMet(p, id)
    THEN IF id = failAt
         THEN Ran(id, FsmResult([p EXCEPT ![id] = "failed"], Err("phase-failed")))
         ELSE Ran(id, ExecuteFrom([p EXCEPT ![id] = "completed"], id + 1, failAt))
    ELSE ExecuteFrom(p, id + 1, failAt)

ExecutePlan(p, failAt) == ExecuteFrom(p, 1, failAt)

\* FSM.SetPhase: writes the state of the named phase, whatever it was
SetPhase(p, id, state) == FsmResult([p EXCEPT ![id] = state], NoErr)

\* FSM.Complete: marks the operation terminal, completed for a nil error
\* and failed otherwise, and leaves the plan alone; the call itself may fail
FSMComplete(state, e, ok) ==
    IF ok THEN [state |-> IF e = NoErr THEN "completed" ELSE "failed", err |-> NoErr]
    ELSE [state |-> state, err |-> Err("complete")]

\* initOperationPlan: creates and persists the plan unless there is one
\* already, which is reported as already-exists
initOperationPlan(exists, p, ok) ==
    IF exists THEN [exists |-> TRUE, plan |-> p, err |-> Err("already-exists")]
    ELSE IF ok THEN [exists |-> TRUE, plan |-> NewPlan, err |-> NoErr]
    ELSE [exists |-> FALSE, plan |-> p, err |-> Err("planner")]

IsAlreadyExists(e) == e.kind = "already-exists"
IsNotFound(e) == e.kind = "not-found"

\* ---------------------------------------------------------------------
\* Requests
\* ---------------------------------------------------------------------
\* installpb.ExecuteRequest_Phase; NoPhase is the nil pointer
PhaseRequest(id, resume, rollback, force, dryRun) ==
    [isNil |-> FALSE, ID |-> id, Resume |-> resume, Rollback |-> rollback,
     Force |-> force, DryRun |-> dryRun]
NoPhase == [isNil |-> TRUE, ID |-> 0, Resume |-> FALSE, Rollback |-> FALSE,
            Force |-> FALSE, DryRun |-> FALSE]
PhaseRequests ==
    {PhaseRequest(id, resume, rollback, force, dryRun) :
        id \in PhaseIds, resume \in BOOLEAN, rollback \in BOOLEAN,
        force \in BOOLEAN, dryRun \in BOOLEAN}

\* ExecuteRequest_Phase.IsResume
IsResume(phase) == phase.Resume

\* addresses are bit strings of AddrLen bits, a CIDR is the prefix its
\* addresses share; the empty string of the configuration is NoCIDR
AddrLen == 1
Addrs == [1..AddrLen -> {0, 1}]
CIDR(prefix) == [set |-> TRUE, prefix |-> prefix]
NoCIDR == [set |-> FALSE, prefix |-> <<>>]
CIDRs == {NoCIDR} \cup {CIDR(prefix) : prefix \in UNION {[1..n -> {0, 1}] : n \in 0..AddrLen}}

IsPrefix(s, t) == Len(s) <= Len(t) /\ \A i \in 1..Len(s) : s[i] = t[i]
Contains(cidr, ip) == IsPrefix(cidr.prefix, ip)

\* validate.NetworkOverlap: an error when the address lies in the range
NetworkOverlap(ip, cidr) ==
    IF Contains(cidr, ip) THEN Err("precondition-failed") ELSE NoErr

\* what validateClusterConfig works on: how the operator and the check of
\* the update against the existing configuration turn out, the advertise
\* address of the local node and the ranges of the update
ConfigInput(env, ip, service, pod) ==
    [env |-> env, AdvertiseIP |-> ip, ServiceCIDR |-> service, PodCIDR |-> pod]
NoConfig == ConfigInput("none", <<>>, NoCIDR, NoCIDR)
ConfigInputs ==
    {ConfigInput("ok", ip, service, pod) : ip \in Addrs, service \in CIDRs, pod \in CIDRs}
    \cup {ConfigInput(env, <<>>, NoCIDR, NoCIDR) : env \in {"operator", "invalid", "no-local-server"}}

\* validateClusterConfig
validateClusterConfig(in) ==
    IF in.env = "operator" THEN TraceWrap(Err("operator"))
    ELSE IF in.env = "invalid" THEN TraceWrap(Err("bad-parameter"))
    ELSE IF in.env = "no-local-server" THEN Err("not-found")
    ELSE IF in.ServiceCIDR.set /\ NetworkOverlap(in.AdvertiseIP, in.ServiceCIDR) # NoErr
    THEN TraceWrap(NetworkOverlap(in.AdvertiseIP, in.ServiceCIDR))
    ELSE IF in.PodCIDR.set /\ NetworkOverlap(in.AdvertiseIP, in.PodCIDR) # NoErr
    THEN TraceWrap(NetworkOverlap(in.AdvertiseIP, in.PodCIDR))
    ELSE NoErr

\* the request a handler served
Cmd(name, phase) ==
    [name |-> name, phase |-> phase, config |-> NoConfig, manual |-> FALSE,
     confirmed |-> FALSE, answer |-> "none", state |-> "none"]
NoCmd == Cmd("none", NoPhase)

\* key and error, as newOperation and the operator return them
NilKey == 0
OperationKeys == {1}
KeyErr(key, e) == [key |-> key, err |-> e]
NoCall == [called |-> FALSE, in |-> KeyErr(NilKey, NoErr), out |-> KeyErr(NilKey, NoErr)]

\* what operator.CreateUpdateConfigOperation may return
CreateResults ==
    {KeyErr(key, NoErr) : key \in OperationKeys}
    \cup {KeyErr(key, Err(kind)) :
            key \in {NilKey} \cup OperationKeys,
            kind \in {"not-found", "access-denied", "connection-problem"}}

installerVars == <<executeSema, callVars, ctxDone, regVars, waitVars, events, coErr,
                   agentVars, serverVars, runVars, tdVars>>

\* ---------------------------------------------------------------------
\* Construction
\* ---------------------------------------------------------------------
\* New: the agent exists when config.LocalAgent is set; maybeStartAgent
\* starts it when the wizard operation can be queried (a failure of
\* startAgent fails New and yields no installer)
Init ==
    /\ executeSema = 0
    /\ callPc = [c \in Calls |-> "idle"]
    /\ callCtxDone = [c \in Calls |-> FALSE]
    /\ callAcquired = [c \in Calls |-> FALSE]
    /\ callPhase = [c \in Calls |-> "nil"]
    /\ callIter = [c \in Calls |-> <<>>]
    /\ ctxDone = FALSE
    /\ stoppers = <<>>
    /\ aborters = <<>>
    /\ waitInvoked = [h \in HandlerIds |-> 0]
    /\ waitsRun = 0
    /\ events = <<>>
    /\ coErr = NoErr
    /\ agent \in BOOLEAN
    /\ agentErrC \in (IF agent THEN {0, 1} ELSE {0})
    /\ chanBuf = [k \in Chans |-> <<>>]
    /\ loops = [k \in Chans |-> IF k = agentErrC THEN "serving" ELSE "none"]
    /\ loopResult = [k \in Chans |-> NoErr]
    /\ agentStopped = FALSE
    /\ doneClosed = FALSE
    /\ errC = <<>>
    /\ serverState = "new"
    /\ serverResult = NoErr
    /\ serverStopped = FALSE
    /\ procShutdown = FALSE
    /\ runPc = "idle"
    /\ runChan = 0
    /\ runCause = "none"
    /\ runErr = NoErr
    /\ tdStarts = <<>>
    /\ tdPc = "none"
    /\ tdList = <<>>
    /\ tdIter = <<>>
    /\ tdErrors = <<>>
    /\ tdResult = NoErr
    /\ tdLog = <<>>
    /\ opState = "created"
    /\ planExists = FALSE
    /\ plan = NewPlan
    /\ cmd = NoCmd
    /\ fsmOps = <<>>
    /\ ret = NoErr
    /\ opResult = NoCall
    /\ opsCreated = 0

\* ---------------------------------------------------------------------
\* Installer.Execute and the execution token
\* ---------------------------------------------------------------------
\* positions between waitForExecuteToken and releaseExecuteToken
WorkPcs == {"engine", "fsm", "wait", "waitStoppers", "procWait"}
InWork(c) == callPc[c] \in WorkPcs

\* a client issues Execute(ctx, phase); the calls are numbered in the order
\* they are issued
ExecuteCall(c, phase) ==
    /\ callPc[c] = "idle"
    /\ \A d \in Calls : d < c => callPc[d] # "idle"
    /\ callPc' = [callPc EXCEPT ![c] = "token"]
    /\ callPhase' = [callPhase EXCEPT ![c] = phase]
    /\ UNCHANGED <<opsVars, coErr, executeSema, callCtxDone, callAcquired, callIter,
                   ctxDone, regVars, waitVars, events, agentVars,
                   serverVars, runVars, tdVars>>

\* the client cancels the request context of a call in flight
CancelRequest(c) ==
    /\ callPc[c] \in {"token"} \cup WorkPcs
    /\ ~callCtxDone[c]
    /\ callCtxDone' = [callCtxDone EXCEPT ![c] = TRUE]
    /\ UNCHANGED <<opsVars, coErr, executeSema, callPc, callAcquired, callPhase, callIter,
                   ctxDone, regVars, waitVars, events, agentVars,
                   serverVars, runVars, tdVars>>

\* a variant of the work's context: the request context of the call
WorkCtxOfRequest(c) == callCtxDone[c]

\* the context Execute hands to the engine and to the FSM is i.ctx, not
\* the ctx of the request: the work of call c sees this context cancelled
WorkCtxDone(c) == ctxDone

\* Execute after waitForExecuteToken returned: the phase decides the work,
\* and the position of the call tells it from then on
Dispatch(c) == IF callPhase[c] = "nil" THEN "engine" ELSE "fsm"

\* waitForExecuteToken, the case of the send on executeSema
waitTokenSend(c) ==
    /\ callPc[c] = "token"
    /\ executeSema < SemaCapacity
    /\ executeSema' = executeSema + 1
    /\ callAcquired' = [callAcquired EXCEPT ![c] = TRUE]
    /\ callPc' = [callPc EXCEPT ![c] = Dispatch(c)]
    /\ callPhase' = [callPhase EXCEPT ![c] = "nil"]
    /\ UNCHANGED <<opsVars, coErr, callCtxDone, callIter,
                   ctxDone, regVars, waitVars, events, agentVars,
                   serverVars, runVars, tdVars>>

\* waitForExecuteToken, the case of ctx.Done(): the function returns
\* nothing, and Execute continues as it does after the send
waitTokenCtxDone(c) ==
    /\ callPc[c] = "token"
    /\ callCtxDone[c]
    /\ callPc' = [callPc EXCEPT ![c] = Dispatch(c)]
    /\ callPhase' = [callPhase EXCEPT ![c] = "nil"]
    /\ UNCHANGED <<opsVars, coErr, executeSema, callAcquired, callCtxDone, callIter,
                   ctxDone, regVars, waitVars, events, agentVars,
                   serverVars, runVars, tdVars>>

\* executePhase: one operation of the FSM on behalf of the request, run
\* under i.ctx, returns
executePhase(c) ==
    /\ callPc[c] = "fsm"
    /\ callPc' = [callPc EXCEPT ![c] = "release"]
    /\ UNCHANGED <<opsVars, coErr, executeSema, callCtxDone, callAcquired, callPhase, callIter,
                   ctxDone, regVars, waitVars, events, agentVars,
                   serverVars, runVars, tdVars>>

\* Engine.Execute returns to Execute
EngineReturn(c) ==
    /\ callPc[c] = "engine"
    /\ callPc' = [callPc EXCEPT ![c] = "release"]
    /\ UNCHANGED <<opsVars, coErr, executeSema, callCtxDone, callAcquired, callPhase, callIter,
                   ctxDone, regVars, waitVars, events, agentVars,
                   serverVars, runVars, tdVars>>

\* releaseExecuteToken (deferred): a receive on executeSema, which blocks
\* while the channel is empty
releaseExecuteToken(c) ==
    /\ callPc[c] = "release"
    /\ executeSema > 0
    /\ executeSema' = executeSema - 1
    /\ callPc' = [callPc EXCEPT ![c] = "done"]
    /\ UNCHANGED <<opsVars, coErr, callCtxDone, callAcquired, callPhase, callIter,
                   ctxDone, regVars, waitVars, events, agentVars,
                   serverVars, runVars, tdVars>>

\* ---------------------------------------------------------------------
\* The local agent
\* ---------------------------------------------------------------------
ChansMade == Cardinality({k \in Chans : loops[k] # "none"})

\* startAgent past its early returns: a fresh channel replaces i.agentErrC
\* and a goroutine serving the agent is spawned
startAgentSpawn ==
    /\ ChansMade < MaxAgentStarts
    /\ agentErrC' = ChansMade + 1
    /\ loops' = [loops EXCEPT ![ChansMade + 1] = "serving"]
    /\ UNCHANGED <<agent, chanBuf, loopResult, agentStopped>>

\* the goroutine of startAgent: ServeWithToken returns e, which is sent on
\* i.agentErrC. The field is read by the goroutine without synchronisation
\* and in an order the language leaves open: it is the channel made with
\* the loop, or the one a later startAgent stored
ServeReturns(k, e, late) ==
    LET target == IF late THEN agentErrC ELSE k IN
    /\ loops[k] = "serving"
    /\ Len(chanBuf[target]) < ErrChanCapacity
    /\ chanBuf' = [chanBuf EXCEPT ![target] = Append(@, e)]
    /\ loops' = [loops EXCEPT ![k] = "returned"]
    /\ loopResult' = [loopResult EXCEPT ![k] = e]
    /\ UNCHANGED <<opsVars, coErr, executeSema, callVars, ctxDone, regVars, waitVars, events,
                   agent, agentErrC, agentStopped, serverVars, runVars, tdVars>>

\* ---------------------------------------------------------------------
\* The Interface of the installer, as called by the engine
\* ---------------------------------------------------------------------
\* a variant of addStopper that puts the handler in front
addStopperFront(list, stopper) == <<stopper>> \o list

addStopper(list, stopper) == Append(list, stopper)

addAborter(list, aborter) == Append(list, aborter)

\* a variant of NotifyOperationAvailable that registers the aborter before
\* it starts the agent
NotifyOperationAvailableRegisterFirst(c, startOk) ==
    /\ callPc[c] = "engine"
    /\ Len(aborters) < MaxHandlers
    /\ aborters' = addAborter(aborters, Len(aborters) + 1)
    /\ UNCHANGED stoppers
    /\ IF agent /\ startOk THEN startAgentSpawn ELSE UNCHANGED agentVars
    /\ UNCHANGED <<opsVars, coErr, executeSema, callVars, ctxDone, waitVars, events,
                   serverVars, runVars, tdVars>>

\* NotifyOperationAvailable: startAgent, whose failure returns at once,
\* then the aborter is registered; the admin agent and the progress looper
\* that follow leave the installer as it is
NotifyOperationAvailable(c, startOk) ==
    /\ callPc[c] = "engine"
    /\ Len(aborters) < MaxHandlers
    /\ IF agent /\ ~startOk
       THEN UNCHANGED <<regVars, agentVars>>
       ELSE /\ IF agent THEN startAgentSpawn ELSE UNCHANGED agentVars
            /\ aborters' = addAborter(aborters, Len(aborters) + 1)
            /\ UNCHANGED stoppers
    /\ UNCHANGED <<opsVars, coErr, executeSema, callVars, ctxDone, waitVars, events,
                   serverVars, runVars, tdVars>>

\* uploadInstallLog and emitAuditEvents return their errors wrapped
UploadErr == TraceWrap(Err("upload"))
AuditErr == TraceWrap(Err("audit"))

\* the errors completeOperation collects, in the order of its steps
CompleteErrors(uploadOk, auditOk) ==
    (IF uploadOk THEN <<>> ELSE <<UploadErr>>) \o (IF auditOk THEN <<>> ELSE <<AuditErr>>)

\* a variant of completeOperation that returns the first error at once
completeOperationReturnOnError(c, status, next, uploadOk, auditOk) ==
    /\ callPc[c] = "engine"
    /\ Len(stoppers) < MaxHandlers
    /\ IF uploadOk /\ auditOk
       THEN /\ stoppers' = addStopper(stoppers, Len(stoppers) + 1)
            /\ events' = events \o <<"none", status>>
            /\ coErr' = NoErr
            /\ callPc' = [callPc EXCEPT ![c] = next]
       ELSE /\ coErr' = NewAggregate(<<Head(CompleteErrors(uploadOk, auditOk))>>)
            /\ UNCHANGED <<stoppers, events, callPc>>
    /\ UNCHANGED <<opsVars, executeSema, callCtxDone, callAcquired, callPhase, callIter,
                   ctxDone, aborters, waitVars, agentVars, serverVars,
                   runVars, tdVars>>

\* completeOperation: the errors of the log upload and of the audit events
\* are collected; the stopper is registered, the elapsed time and then the
\* completion event of the given status are sent; the aggregate of the
\* collected errors is returned
completeOperation(c, status, next, uploadOk, auditOk) ==
    /\ callPc[c] = "engine"
    /\ Len(stoppers) < MaxHandlers
    /\ stoppers' = addStopper(stoppers, Len(stoppers) + 1)
    /\ events' = events \o <<"none", status>>
    /\ coErr' = NewAggregate(CompleteErrors(uploadOk, auditOk))
    /\ callPc' = [callPc EXCEPT ![c] = next]
    /\ UNCHANGED <<opsVars, executeSema, callCtxDone, callAcquired, callPhase, callIter,
                   ctxDone, aborters, waitVars, agentVars, serverVars,
                   runVars, tdVars>>

CompleteOperation(c, uploadOk, auditOk) ==
    completeOperation(c, "completed", "engine", uploadOk, auditOk)

\* a variant of CompleteOperationAndWait that returns without waiting
CompleteOperationAndReturn(c, uploadOk, auditOk) ==
    completeOperation(c, "completed-pending", "engine", uploadOk, auditOk)

\* CompleteOperationAndWait up to its call of wait()
CompleteOperationAndWait(c, uploadOk, auditOk) ==
    completeOperation(c, "completed-pending", "wait", uploadOk, auditOk)

\* a call of completeOperation, through either method of the Interface
CompleteStep(c) ==
    \E uploadOk \in BOOLEAN, auditOk \in BOOLEAN :
        \/ CompleteOperation(c, uploadOk, auditOk)
        \/ CompleteOperationAndWait(c, uploadOk, auditOk)

\* wait: stopStoppers(i.ctx); the range loop evaluates i.stoppers once
waitRange(c) ==
    /\ callPc[c] = "wait"
    /\ callIter' = [callIter EXCEPT ![c] = stoppers]
    /\ waitsRun' = waitsRun + 1
    /\ callPc' = [callPc EXCEPT ![c] = IF stoppers = <<>> THEN "procWait" ELSE "waitStoppers"]
    /\ UNCHANGED <<opsVars, coErr, executeSema, callCtxDone, callAcquired, callPhase,
                   ctxDone, regVars, waitInvoked, events, agentVars,
                   serverVars, runVars, tdVars>>

\* wait: one iteration of stopStoppers; wait drops the error it returns
waitStopper(c) ==
    /\ callPc[c] = "waitStoppers"
    /\ waitInvoked' = [waitInvoked EXCEPT ![Head(callIter[c])] = @ + 1]
    /\ callIter' = [callIter EXCEPT ![c] = Tail(@)]
    /\ callPc' = [callPc EXCEPT ![c] =
                     IF Tail(callIter[c]) = <<>> THEN "procWait" ELSE "waitStoppers"]
    /\ UNCHANGED <<opsVars, coErr, executeSema, callCtxDone, callAcquired, callPhase,
                   ctxDone, regVars, waitsRun, events, agentVars,
                   serverVars, runVars, tdVars>>

\* wait: Process.Wait returns, and CompleteOperationAndWait returns to the
\* engine
processWait(c) ==
    /\ callPc[c] = "procWait"
    /\ callPc' = [callPc EXCEPT ![c] = "engine"]
    /\ UNCHANGED <<opsVars, coErr, executeSema, callCtxDone, callAcquired, callPhase, callIter,
                   ctxDone, regVars, waitVars, events, agentVars,
                   serverVars, runVars, tdVars>>


\* ---------------------------------------------------------------------
\* Installer.Run
\* ---------------------------------------------------------------------
\* Run up to its select: the goroutine running server.Run is spawned and
\* the select evaluates its channel operands, i.agentErrC among them
RunStart ==
    /\ runPc = "idle"
    /\ runPc' = "select"
    /\ runChan' = agentErrC
    /\ serverState' = "running"
    /\ UNCHANGED <<opsVars, coErr, executeSema, callVars, ctxDone, regVars, waitVars, events,
                   agentVars, errC, serverResult, serverStopped, procShutdown,
                   doneClosed, runCause, runErr, tdVars>>

\* the goroutine of Run: server.Run returns e, which is sent on errC
ServerRunReturns(e) ==
    /\ serverState = "running"
    /\ Len(errC) < ErrChanCapacity
    /\ errC' = Append(errC, e)
    /\ serverState' = "terminated"
    /\ serverResult' = e
    /\ UNCHANGED <<opsVars, coErr, executeSema, callVars, ctxDone, regVars, waitVars, events,
                   agentVars, serverStopped, procShutdown, doneClosed, runVars, tdVars>>

\* the operation's done channel is closed
CloseDone ==
    /\ ~doneClosed
    /\ doneClosed' = TRUE
    /\ UNCHANGED <<opsVars, coErr, executeSema, callVars, ctxDone, regVars, waitVars, events,
                   agentVars, errC, serverState, serverResult, serverStopped,
                   procShutdown, runVars, tdVars>>

\* the select of Run, case err := <-errC
RunSelectServer ==
    /\ runPc = "select"
    /\ errC # <<>>
    /\ runErr' = TraceWrap(Head(errC))
    /\ errC' = Tail(errC)
    /\ runCause' = "server"
    /\ runPc' = "defer"
    /\ UNCHANGED <<opsVars, coErr, executeSema, callVars, ctxDone, regVars, waitVars, events,
                   agentVars, serverState, serverResult, serverStopped,
                   procShutdown, doneClosed, runChan, tdVars>>

\* the select of Run, case err := <-i.agentErrC (never ready on a nil channel)
RunSelectAgent ==
    /\ runPc = "select"
    /\ runChan # 0
    /\ chanBuf[runChan] # <<>>
    /\ runErr' = TraceWrap(Head(chanBuf[runChan]))
    /\ chanBuf' = [chanBuf EXCEPT ![runChan] = Tail(@)]
    /\ runCause' = "agent"
    /\ runPc' = "defer"
    /\ UNCHANGED <<opsVars, coErr, executeSema, callVars, ctxDone, regVars, waitVars, events,
                   agent, agentErrC, loops, loopResult, agentStopped, serverVars,
                   runChan, tdVars>>

\* a variant of the case that does not wait for the channel to close
RunSelectDefault ==
    /\ runPc = "select"
    /\ runErr' = NoErr
    /\ runCause' = "done"
    /\ runPc' = "defer"
    /\ UNCHANGED <<opsVars, coErr, executeSema, callVars, ctxDone, regVars, waitVars, events,
                   agentVars, serverVars, runChan, tdVars>>

\* the select of Run, case <-i.doneC
RunSelectDone ==
    /\ runPc = "select"
    /\ doneClosed
    /\ runErr' = NoErr
    /\ runCause' = "done"
    /\ runPc' = "defer"
    /\ UNCHANGED <<opsVars, coErr, executeSema, callVars, ctxDone, regVars, waitVars, events,
                   agentVars, serverVars, runChan, tdVars>>

\* a variant of the deferred function that aborts on every error
RunDeferredAbortOnError ==
    /\ runPc = "defer"
    /\ runPc' = "teardown"
    /\ tdStarts' = Append(tdStarts, IF runErr # NoErr THEN "abort" ELSE "stop")
    /\ tdPc' = "cancel"
    /\ UNCHANGED <<opsVars, coErr, executeSema, callVars, ctxDone, regVars, waitVars, events,
                   agentVars, serverVars, runChan, runCause, runErr,
                   tdList, tdIter, tdErrors, tdResult, tdLog>>

\* the deferred function of Run: abort for an abort-class error, else stop
RunDeferred ==
    /\ runPc = "defer"
    /\ runPc' = "teardown"
    /\ tdStarts' = Append(tdStarts, IF IsAbortedErr(runErr) THEN "abort" ELSE "stop")
    /\ tdPc' = "cancel"
    /\ UNCHANGED <<opsVars, coErr, executeSema, callVars, ctxDone, regVars, waitVars, events,
                   agentVars, serverVars, runChan, runCause, runErr,
                   tdList, tdIter, tdErrors, tdResult, tdLog>>

TdPath == IF tdStarts = <<>> THEN "none" ELSE tdStarts[Len(tdStarts)]

\* ---------------------------------------------------------------------
\* The teardown paths
\* ---------------------------------------------------------------------
\* i.cancel(), first statement of both paths
tdCancel(path, next) ==
    /\ TdPath = path
    /\ tdPc = "cancel"
    /\ ctxDone' = TRUE
    /\ tdLog' = Append(tdLog, Step("cancel"))
    /\ tdPc' = next
    /\ UNCHANGED <<opsVars, coErr, executeSema, callVars, regVars, waitVars, events,
                   agentVars, serverVars, runVars, tdStarts, tdList, tdIter,
                   tdErrors, tdResult>>

\* a variant of the range clause that goes through the list twice
tdRangeTwice(path, list) ==
    /\ TdPath = path
    /\ tdPc = "range"
    /\ tdList' = list
    /\ tdIter' = list \o list
    /\ tdPc' = "loop"
    /\ UNCHANGED <<opsVars, coErr, executeSema, callVars, ctxDone, regVars, waitVars, events,
                   agentVars, serverVars, runVars, tdStarts, tdErrors, tdResult, tdLog>>

\* the range clause of a handler loop evaluates the list once
tdRange(path, list) ==
    /\ TdPath = path
    /\ tdPc = "range"
    /\ tdList' = list
    /\ tdIter' = list
    /\ tdPc' = "loop"
    /\ UNCHANGED <<opsVars, coErr, executeSema, callVars, ctxDone, regVars, waitVars, events,
                   agentVars, serverVars, runVars, tdStarts, tdErrors, tdResult, tdLog>>

\* a variant of the iteration that leaves the loop on the first error
tdLoopShortCircuit(path, failed) ==
    /\ TdPath = path
    /\ tdPc = "loop"
    /\ tdIter # <<>>
    /\ tdLog' = Append(tdLog, HandlerStep(Head(tdIter), failed))
    /\ tdErrors' = IF failed THEN Append(tdErrors, Head(tdIter)) ELSE tdErrors
    /\ tdIter' = IF failed THEN <<>> ELSE Tail(tdIter)
    /\ UNCHANGED <<opsVars, coErr, executeSema, callVars, ctxDone, regVars, waitVars, events,
                   agentVars, serverVars, runVars, tdStarts, tdPc, tdList, tdResult>>

\* one iteration of a handler loop: c.Stop(ctx) returns, its error is
\* collected and the loop goes on
tdLoop(path, failed) ==
    /\ TdPath = path
    /\ tdPc = "loop"
    /\ tdIter # <<>>
    /\ tdLog' = Append(tdLog, HandlerStep(Head(tdIter), failed))
    /\ tdErrors' = IF failed THEN Append(tdErrors, Head(tdIter)) ELSE tdErrors
    /\ tdIter' = Tail(tdIter)
    /\ UNCHANGED <<opsVars, coErr, executeSema, callVars, ctxDone, regVars, waitVars, events,
                   agentVars, serverVars, runVars, tdStarts, tdPc, tdList, tdResult>>

\* i.config.Process.Shutdown(ctx), reached when the loop is through
tdShutdown(path) ==
    /\ TdPath = path
    /\ tdPc = "loop"
    /\ tdIter = <<>>
    /\ procShutdown' = TRUE
    /\ tdLog' = Append(tdLog, Step("shutdown"))
    /\ tdPc' = "server"
    /\ UNCHANGED <<opsVars, coErr, executeSema, callVars, ctxDone, regVars, waitVars, events,
                   agentVars, errC, serverState, serverResult, serverStopped,
                   doneClosed, runVars, tdStarts, tdList, tdIter, tdErrors, tdResult>>

\* i.server.Stop(ctx) and the return of the path, with which Run returns
tdServerStop(path, result) ==
    /\ TdPath = path
    /\ tdPc = "server"
    /\ serverStopped' = TRUE
    /\ tdLog' = Append(tdLog, Step("serverStop"))
    /\ tdResult' = result
    /\ tdPc' = "done"
    /\ runPc' = "exit"
    /\ UNCHANGED <<opsVars, coErr, executeSema, callVars, ctxDone, regVars, waitVars, events,
                   agentVars, errC, serverState, serverResult, procShutdown,
                   doneClosed, runChan, runCause, runErr, tdStarts, tdList,
                   tdIter, tdErrors>>

\* stopWithContext: i.agent.Stop(ctx) when an agent is configured
stopAgent ==
    /\ TdPath = "stop"
    /\ tdPc = "agent"
    /\ IF agent
       THEN /\ agentStopped' = TRUE
            /\ tdLog' = Append(tdLog, Step("agentStop"))
       ELSE UNCHANGED <<agentStopped, tdLog>>
    /\ tdPc' = "range"
    /\ UNCHANGED <<opsVars, coErr, executeSema, callVars, ctxDone, regVars, waitVars, events,
                   agent, agentErrC, chanBuf, loops, loopResult, serverVars,
                   runVars, tdStarts, tdList, tdIter, tdErrors, tdResult>>

\* a variant of the stop path that returns the error of stopStoppers at
\* once, before the process and the server are dealt with
stopWithContextReturnOnError ==
    \/ tdCancel("stop", "agent")
    \/ stopAgent
    \/ tdRange("stop", stoppers)
    \/ \E failed \in BOOLEAN : tdLoop("stop", failed)
    \/ /\ tdErrors = <<>>
       /\ tdShutdown("stop")
    \/ /\ TdPath = "stop"
       /\ tdPc = "loop"
       /\ tdIter = <<>>
       /\ tdErrors # <<>>
       /\ tdResult' = TraceWrap(NewAggregate(tdErrors))
       /\ tdPc' = "done"
       /\ runPc' = "exit"
       /\ UNCHANGED <<opsVars, coErr, executeSema, callVars, ctxDone, regVars, waitVars, events,
                      agentVars, serverVars, runChan, runCause, runErr, tdStarts,
                      tdList, tdIter, tdErrors, tdLog>>
    \/ tdServerStop("stop", TraceWrap(NewAggregate(tdErrors)))

\* a variant of the stop path that goes through the aborters after the
\* stoppers
stopWithContextAndAborters ==
    \/ tdCancel("stop", "agent")
    \/ stopAgent
    \/ tdRange("stop", stoppers \o aborters)
    \/ \E failed \in BOOLEAN : tdLoop("stop", failed)
    \/ tdShutdown("stop")
    \/ tdServerStop("stop", TraceWrap(NewAggregate(tdErrors)))

\* stopWithContext: cancel, agent, stopStoppers, Process.Shutdown,
\* server.Stop; returns the wrapped aggregate of stopStoppers
stopWithContext ==
    \/ tdCancel("stop", "agent")
    \/ stopAgent
    \/ tdRange("stop", stoppers)
    \/ \E failed \in BOOLEAN : tdLoop("stop", failed)
    \/ tdShutdown("stop")
    \/ tdServerStop("stop", TraceWrap(NewAggregate(tdErrors)))

\* a variant of the abort path that does not cancel the internal context
abortWithContextNoCancel ==
    \/ /\ TdPath = "abort"
       /\ tdPc = "cancel"
       /\ tdPc' = "range"
       /\ UNCHANGED <<opsVars, coErr, executeSema, callVars, ctxDone, regVars, waitVars, events,
                      agentVars, serverVars, runVars, tdStarts, tdList, tdIter,
                      tdErrors, tdResult, tdLog>>
    \/ tdRange("abort", aborters)
    \/ \E failed \in BOOLEAN : tdLoop("abort", failed)
    \/ tdShutdown("abort")
    \/ tdServerStop("abort", NewAggregate(tdErrors))

\* a variant of the abort path whose last step also drains executeSema
abortWithContextReleasing ==
    \/ tdCancel("abort", "range")
    \/ tdRange("abort", aborters)
    \/ \E failed \in BOOLEAN : tdLoop("abort", failed)
    \/ tdShutdown("abort")
    \/ /\ TdPath = "abort"
       /\ tdPc = "server"
       /\ executeSema' = 0
       /\ serverStopped' = TRUE
       /\ tdLog' = Append(tdLog, Step("serverStop"))
       /\ tdResult' = NewAggregate(tdErrors)
       /\ tdPc' = "done"
       /\ runPc' = "exit"
       /\ UNCHANGED <<opsVars, coErr, callVars, ctxDone, regVars, waitVars, events,
                      agentVars, errC, serverState, serverResult, procShutdown,
                      doneClosed, runChan, runCause, runErr, tdStarts, tdList,
                      tdIter, tdErrors>>

\* abortWithContext: cancel, the aborters, Process.Shutdown, server.Stop;
\* returns the aggregate of the aborters' errors
abortWithContext ==
    \/ tdCancel("abort", "range")
    \/ tdRange("abort", aborters)
    \/ \E failed \in BOOLEAN : tdLoop("abort", failed)
    \/ tdShutdown("abort")
    \/ tdServerStop("abort", NewAggregate(tdErrors))

\* ---------------------------------------------------------------------
\* Installer.Execute, ExecuteOperation and Complete on the plan
\* ---------------------------------------------------------------------
\* NewFSM can only succeed for an operation that has a plan
CanNewFSM(exists, fsmOk) == fsmOk => exists

\* executeOperation: the plan is executed from its first phase that is
\* not completed
executeOperation(p, failAt) == ExecutePlan(p, failAt)

\* a variant of the body of executePhase that looks at the rollback flag
\* before the resume flag
executePhaseRollbackFirst(p, phase, fsmOk, failAt) ==
    LET params == Params(phase.ID, phase.Force, FALSE) IN
    IF ~fsmOk
    THEN [plan |-> p, ops |-> <<>>, err |-> TraceWrap(Err("fsm"))]
    ELSE IF phase.Rollback
    THEN LET r == RollbackPhase(p, params, failAt # phase.ID) IN
         [plan |-> r.plan, ops |-> <<Worked(FsmOp("RollbackPhase", params, NoErr), r.ran)>>,
          err |-> TraceWrap(r.err)]
    ELSE IF IsResume(phase)
    THEN LET r == executeOperation(p, failAt) IN
         [plan |-> r.plan,
          ops |-> <<Worked(FsmOp("executeOperation", NoParams, NoErr), r.ran)>>,
          err |-> TraceWrap(TraceWrap(r.err))]
    ELSE LET r == ExecutePhase(p, params, failAt # phase.ID) IN
         [plan |-> r.plan, ops |-> <<Worked(FsmOp("ExecutePhase", params, NoErr), r.ran)>>,
          err |-> TraceWrap(r.err)]

\* a variant of the body of executePhase that takes a resume request for
\* a request to execute the named phase
executePhaseResumeNamed(p, phase, fsmOk, failAt) ==
    LET params == Params(phase.ID, phase.Force, FALSE) IN
    IF ~fsmOk
    THEN [plan |-> p, ops |-> <<>>, err |-> TraceWrap(Err("fsm"))]
    ELSE IF phase.Rollback
    THEN LET r == RollbackPhase(p, params, failAt # phase.ID) IN
         [plan |-> r.plan, ops |-> <<Worked(FsmOp("RollbackPhase", params, NoErr), r.ran)>>,
          err |-> TraceWrap(r.err)]
    ELSE LET r == ExecutePhase(p, params, failAt # phase.ID) IN
         [plan |-> r.plan, ops |-> <<Worked(FsmOp("ExecutePhase", params, NoErr), r.ran)>>,
          err |-> TraceWrap(r.err)]

\* a variant of the body of executePhase that always sets the force flag
\* of the parameters
executePhaseForced(p, phase, fsmOk, failAt) ==
    LET params == Params(phase.ID, TRUE, FALSE) IN
    IF ~fsmOk
    THEN [plan |-> p, ops |-> <<>>, err |-> TraceWrap(Err("fsm"))]
    ELSE IF IsResume(phase)
    THEN LET r == executeOperation(p, failAt) IN
         [plan |-> r.plan,
          ops |-> <<Worked(FsmOp("executeOperation", NoParams, NoErr), r.ran)>>,
          err |-> TraceWrap(TraceWrap(r.err))]
    ELSE IF phase.Rollback
    THEN LET r == RollbackPhase(p, params, failAt # phase.ID) IN
         [plan |-> r.plan, ops |-> <<Worked(FsmOp("RollbackPhase", params, NoErr), r.ran)>>,
          err |-> TraceWrap(r.err)]
    ELSE LET r == ExecutePhase(p, params, failAt # phase.ID) IN
         [plan |-> r.plan, ops |-> <<Worked(FsmOp("ExecutePhase", params, NoErr), r.ran)>>,
          err |-> TraceWrap(r.err)]

\* the body of executePhase: NewFSM, whose failure is returned; a resume
\* request executes the operation; else the parameters are made of the
\* phase id and the force flag, and the phase is rolled back for a
\* rollback request and executed otherwise
executePhaseBody(p, phase, fsmOk, failAt) ==
    LET params == Params(phase.ID, phase.Force, FALSE) IN
    IF ~fsmOk
    THEN [plan |-> p, ops |-> <<>>, err |-> TraceWrap(Err("fsm"))]
    ELSE IF IsResume(phase)
    THEN LET r == executeOperation(p, failAt) IN
         [plan |-> r.plan,
          ops |-> <<Worked(FsmOp("executeOperation", NoParams, NoErr), r.ran)>>,
          err |-> TraceWrap(TraceWrap(r.err))]
    ELSE IF phase.Rollback
    THEN LET r == RollbackPhase(p, params, failAt # phase.ID) IN
         [plan |-> r.plan, ops |-> <<Worked(FsmOp("RollbackPhase", params, NoErr), r.ran)>>,
          err |-> TraceWrap(r.err)]
    ELSE LET r == ExecutePhase(p, params, failAt # phase.ID) IN
         [plan |-> r.plan, ops |-> <<Worked(FsmOp("ExecutePhase", params, NoErr), r.ran)>>,
          err |-> TraceWrap(r.err)]

\* Installer.Execute, served from the token it waits for to the token it
\* gives back: a phase goes to executePhase, no phase to the engine, whose
\* error is returned wrapped; what the engine does with the Interface are
\* the actions of the Interface
Execute(phase, fsmOk, failAt) ==
    LET r == IF phase.isNil
             THEN [plan |-> plan,
                   ops |-> <<FsmOp("Engine.Execute", NoParams, NoErr)>>,
                   err |-> TraceWrap(IF failAt = 0 THEN NoErr ELSE Err("engine"))]
             ELSE executePhaseBody(plan, phase, fsmOk, failAt) IN
    /\ executeSema < SemaCapacity
    /\ IF phase.isNil THEN fsmOk ELSE CanNewFSM(planExists, fsmOk)
    /\ plan' = r.plan
    /\ fsmOps' = r.ops
    /\ ret' = r.err
    /\ cmd' = Cmd("Execute", phase)
    /\ UNCHANGED <<opState, planExists, opResult, opsCreated, installerVars>>

\* a variant of ExecuteOperation that takes every error of the plan's
\* initialisation for a failure
ExecuteOperationStrict(initOk, fsmOk, failAt, completeOk) ==
    LET init == initOperationPlan(planExists, plan, initOk)
        r == ExecutePlan(init.plan, failAt)
        c == FSMComplete(opState, r.err, completeOk) IN
    /\ CanNewFSM(init.exists, fsmOk)
    /\ cmd' = Cmd("ExecuteOperation", NoPhase)
    /\ IF init.err # NoErr
       THEN /\ ret' = TraceWrap(init.err)
            /\ fsmOps' = <<>>
            /\ UNCHANGED <<opState, planExists, plan>>
       ELSE IF ~fsmOk
       THEN /\ ret' = TraceWrap(Err("fsm"))
            /\ fsmOps' = <<>>
            /\ planExists' = init.exists
            /\ plan' = init.plan
            /\ UNCHANGED opState
       ELSE /\ ret' = TraceWrap(IF r.err = NoErr THEN c.err ELSE r.err)
            /\ fsmOps' = <<Worked(FsmOp("ExecutePlan", NoParams, NoErr), r.ran),
                           FsmOp("Complete", NoParams, r.err)>>
            /\ planExists' = init.exists
            /\ plan' = r.plan
            /\ opState' = c.state
    /\ UNCHANGED <<opResult, opsCreated, installerVars>>

\* a variant of ExecuteOperation that returns what Complete returned
ExecuteOperationCompletionOnly(initOk, fsmOk, failAt, completeOk) ==
    LET init == initOperationPlan(planExists, plan, initOk)
        r == ExecutePlan(init.plan, failAt)
        c == FSMComplete(opState, r.err, completeOk) IN
    /\ CanNewFSM(init.exists, fsmOk)
    /\ cmd' = Cmd("ExecuteOperation", NoPhase)
    /\ IF init.err # NoErr /\ ~IsAlreadyExists(init.err)
       THEN /\ ret' = TraceWrap(init.err)
            /\ fsmOps' = <<>>
            /\ UNCHANGED <<opState, planExists, plan>>
       ELSE IF ~fsmOk
       THEN /\ ret' = TraceWrap(Err("fsm"))
            /\ fsmOps' = <<>>
            /\ planExists' = init.exists
            /\ plan' = init.plan
            /\ UNCHANGED opState
       ELSE /\ ret' = TraceWrap(c.err)
            /\ fsmOps' = <<Worked(FsmOp("ExecutePlan", NoParams, NoErr), r.ran),
                           FsmOp("Complete", NoParams, r.err)>>
            /\ planExists' = init.exists
            /\ plan' = r.plan
            /\ opState' = c.state
    /\ UNCHANGED <<opResult, opsCreated, installerVars>>

\* a variant of ExecuteOperation in which the error of Complete replaces
\* the error of the plan
ExecuteOperationCompletionFirst(initOk, fsmOk, failAt, completeOk) ==
    LET init == initOperationPlan(planExists, plan, initOk)
        r == ExecutePlan(init.plan, failAt)
        c == FSMComplete(opState, r.err, completeOk) IN
    /\ CanNewFSM(init.exists, fsmOk)
    /\ cmd' = Cmd("ExecuteOperation", NoPhase)
    /\ IF init.err # NoErr /\ ~IsAlreadyExists(init.err)
       THEN /\ ret' = TraceWrap(init.err)
            /\ fsmOps' = <<>>
            /\ UNCHANGED <<opState, planExists, plan>>
       ELSE IF ~fsmOk
       THEN /\ ret' = TraceWrap(Err("fsm"))
            /\ fsmOps' = <<>>
            /\ planExists' = init.exists
            /\ plan' = init.plan
            /\ UNCHANGED opState
       ELSE /\ ret' = TraceWrap(IF c.err # NoErr THEN c.err ELSE r.err)
            /\ fsmOps' = <<Worked(FsmOp("ExecutePlan", NoParams, NoErr), r.ran),
                           FsmOp("Complete", NoParams, r.err)>>
            /\ planExists' = init.exists
            /\ plan' = r.plan
            /\ opState' = c.state
    /\ UNCHANGED <<opResult, opsCreated, installerVars>>

\* Installer.ExecuteOperation: the plan is initialised, and an error of
\* that other than already-exists is returned; NewFSM, whose failure is
\* returned; the plan is executed and the operation completed with the
\* plan's error; the error of Complete is returned when the plan had none
ExecuteOperation(initOk, fsmOk, failAt, completeOk) ==
    LET init == initOperationPlan(planExists, plan, initOk)
        r == ExecutePlan(init.plan, failAt)
        c == FSMComplete(opState, r.err, completeOk) IN
    /\ CanNewFSM(init.exists, fsmOk)
    /\ cmd' = Cmd("ExecuteOperation", NoPhase)
    /\ IF init.err # NoErr /\ ~IsAlreadyExists(init.err)
       THEN /\ ret' = TraceWrap(init.err)
            /\ fsmOps' = <<>>
            /\ UNCHANGED <<opState, planExists, plan>>
       ELSE IF ~fsmOk
       THEN /\ ret' = TraceWrap(Err("fsm"))
            /\ fsmOps' = <<>>
            /\ planExists' = init.exists
            /\ plan' = init.plan
            /\ UNCHANGED opState
       ELSE /\ ret' = TraceWrap(IF r.err = NoErr THEN c.err ELSE r.err)
            /\ fsmOps' = <<Worked(FsmOp("ExecutePlan", NoParams, NoErr), r.ran),
                           FsmOp("Complete", NoParams, r.err)>>
            /\ planExists' = init.exists
            /\ plan' = r.plan
            /\ opState' = c.state
    /\ UNCHANGED <<opResult, opsCreated, installerVars>>

ManualError == Err("completed manually")

\* a variant of Complete that completes the FSM without an error
CompleteNoError(fsmOk, completeOk) ==
    LET c == FSMComplete(opState, NoErr, completeOk) IN
    /\ CanNewFSM(planExists, fsmOk)
    /\ cmd' = Cmd("Complete", NoPhase)
    /\ IF ~fsmOk
       THEN /\ ret' = TraceWrap(Err("fsm"))
            /\ fsmOps' = <<>>
            /\ UNCHANGED opState
       ELSE /\ ret' = TraceWrap(c.err)
            /\ fsmOps' = <<FsmOp("Complete", NoParams, NoErr)>>
            /\ opState' = c.state
    /\ UNCHANGED <<planExists, plan, opResult, opsCreated, installerVars>>

\* Installer.Complete: NewFSM, whose failure is returned, then the FSM is
\* completed with the error "completed manually"
Complete(fsmOk, completeOk) ==
    LET c == FSMComplete(opState, ManualError, completeOk) IN
    /\ CanNewFSM(planExists, fsmOk)
    /\ cmd' = Cmd("Complete", NoPhase)
    /\ IF ~fsmOk
       THEN /\ ret' = TraceWrap(Err("fsm"))
            /\ fsmOps' = <<>>
            /\ UNCHANGED opState
       ELSE /\ ret' = TraceWrap(c.err)
            /\ fsmOps' = <<FsmOp("Complete", NoParams, ManualError)>>
            /\ opState' = c.state
    /\ UNCHANGED <<planExists, plan, opResult, opsCreated, installerVars>>

\* ExecuteOperation in a process that is killed when the plan has come to
\* phase killAt: the phases before it were run; when the work of the phase
\* had started the phase is persisted as in progress, which is done before
\* the work starts, and else it is left as it was; nothing is completed or
\* returned, and the installer that is started afterwards is a new one
ExecuteOperationKilled(killAt, started) ==
    LET init == initOperationPlan(planExists, plan, TRUE)
        r == ExecutePlan(init.plan, killAt)
        before == SelectSeq(r.ran, LAMBDA k : k # killAt) IN
    /\ killAt \in {r.ran[i] : i \in 1..Len(r.ran)}
    /\ cmd' = Cmd("ExecuteOperationKilled", NoPhase)
    /\ planExists' = init.exists
    /\ plan' = [r.plan EXCEPT ![killAt] = IF started THEN "in-progress" ELSE init.plan[killAt]]
    /\ fsmOps' = <<Worked(FsmOp("ExecutePlan", NoParams, NoErr),
                          IF started THEN r.ran ELSE before)>>
    /\ ret' = NoErr
    /\ UNCHANGED <<opState, opResult, opsCreated, installerVars>>

\* ---------------------------------------------------------------------
\* The cluster configuration commands
\* ---------------------------------------------------------------------
\* a variant of newOperation that wraps every error of the operator
newOperationWrapAll(result) ==
    IF result.err # NoErr
    THEN KeyErr(NilKey, TraceWrap(result.err))
    ELSE KeyErr(result.key, NoErr)

\* configInitializer.newOperation on what CreateUpdateConfigOperation
\* returned: not-found becomes not-implemented, any other error is
\* wrapped, and the key is returned when there is no error
newOperation(result) ==
    IF result.err # NoErr
    THEN IF IsNotFound(result.err)
         THEN KeyErr(NilKey, Err("not-implemented"))
         ELSE KeyErr(NilKey, TraceWrap(result.err))
    ELSE KeyErr(result.key, NoErr)

\* newUpdater of the command line: the initializer's newOperation, whose
\* error is returned, then its newOperationPlan and its newUpdater
newUpdater(result) ==
    LET op == newOperation(result) IN
    [call |-> [called |-> TRUE, in |-> result, out |-> op], err |-> TraceWrap(op.err)]

\* newConfigUpdater: the configuration is marshalled, an error of which is
\* returned, and the updater is made with the configInitializer
newConfigUpdater(marshalOk, result, last) ==
    IF ~marshalOk THEN [call |-> last, err |-> TraceWrap(Err("marshal"))]
    ELSE newUpdater(result)

\* Updater.Run: the plan is executed and the operation completed with the
\* plan's error
UpdaterRun(p, failAt) ==
    LET r == ExecutePlan(p, failAt) IN
    [plan |-> r.plan, state |-> FSMComplete("created", r.err, TRUE).state, err |-> r.err,
     ops |-> <<Worked(FsmOp("ExecutePlan", NoParams, NoErr), r.ran),
               FsmOp("Complete", NoParams, r.err)>>]

\* a variant of updateConfig that validates the configuration only after
\* the updater, and with it the operation and its plan, has been made
updateConfigValidateLast(in, manual, confirmed, answer, marshalOk, result, failAt) ==
    LET v == validateClusterConfig(in)
        u == newConfigUpdater(marshalOk, result, opResult)
        run == UpdaterRun(NewPlan, failAt) IN
    /\ answer \in (IF confirmed THEN {"none"} ELSE {"yes", "no", "error"})
    /\ cmd = NoCmd
    /\ cmd' = [Cmd("updateConfig", NoPhase) EXCEPT !.config = in, !.manual = manual,
                                                   !.confirmed = confirmed, !.answer = answer]
    /\ IF ~confirmed /\ answer = "error"
       THEN /\ ret' = TraceWrap(Err("confirm"))
            /\ fsmOps' = <<>>
            /\ UNCHANGED <<opState, planExists, plan, opResult, opsCreated>>
       ELSE IF ~confirmed /\ answer = "no"
       THEN /\ ret' = NoErr
            /\ fsmOps' = <<>>
            /\ UNCHANGED <<opState, planExists, plan, opResult, opsCreated>>
       ELSE IF u.err # NoErr
       THEN /\ ret' = TraceWrap(u.err)
            /\ fsmOps' = <<>>
            /\ opResult' = u.call
            /\ UNCHANGED <<opState, planExists, plan, opsCreated>>
       ELSE /\ opsCreated' = opsCreated + 1
            /\ opResult' = u.call
            /\ planExists' = TRUE
            /\ plan' = NewPlan
            /\ opState' = "created"
            /\ fsmOps' = <<>>
            /\ ret' = TraceWrap(v)
    /\ UNCHANGED installerVars

\* a variant of updateConfig that runs the updater in manual mode too
updateConfigAlwaysRun(in, manual, confirmed, answer, marshalOk, result, failAt) ==
    LET v == validateClusterConfig(in)
        u == newConfigUpdater(marshalOk, result, opResult)
        run == UpdaterRun(NewPlan, failAt) IN
    /\ answer \in (IF confirmed THEN {"none"} ELSE {"yes", "no", "error"})
    /\ cmd = NoCmd
    /\ cmd' = [Cmd("updateConfig", NoPhase) EXCEPT !.config = in, !.manual = manual,
                                                   !.confirmed = confirmed, !.answer = answer]
    /\ IF v # NoErr
       THEN /\ ret' = TraceWrap(v)
            /\ fsmOps' = <<>>
            /\ UNCHANGED <<opState, planExists, plan, opResult, opsCreated>>
       ELSE IF ~confirmed /\ answer = "error"
       THEN /\ ret' = TraceWrap(Err("confirm"))
            /\ fsmOps' = <<>>
            /\ UNCHANGED <<opState, planExists, plan, opResult, opsCreated>>
       ELSE IF ~confirmed /\ answer = "no"
       THEN /\ ret' = NoErr
            /\ fsmOps' = <<>>
            /\ UNCHANGED <<opState, planExists, plan, opResult, opsCreated>>
       ELSE IF u.err # NoErr
       THEN /\ ret' = TraceWrap(u.err)
            /\ fsmOps' = <<>>
            /\ opResult' = u.call
            /\ UNCHANGED <<opState, planExists, plan, opsCreated>>
       ELSE /\ opsCreated' = opsCreated + 1
            /\ opResult' = u.call
            /\ planExists' = TRUE
            /\ plan' = run.plan
            /\ opState' = run.state
            /\ fsmOps' = run.ops
            /\ ret' = TraceWrap(run.err)
    /\ UNCHANGED installerVars

\* updateConfig: the configuration is validated, an error of which is
\* returned; an unconfirmed request asks the user, and returns the error
\* of asking, or nil when the user declines; newConfigUpdater creates the
\* operation and its plan, an error of which is returned; unless manual,
\* the updater is run and its error returned
updateConfig(in, manual, confirmed, answer, marshalOk, result, failAt) ==
    LET v == validateClusterConfig(in)
        u == newConfigUpdater(marshalOk, result, opResult)
        run == UpdaterRun(NewPlan, failAt) IN
    /\ answer \in (IF confirmed THEN {"none"} ELSE {"yes", "no", "error"})
    /\ cmd = NoCmd
    /\ cmd' = [Cmd("updateConfig", NoPhase) EXCEPT !.config = in, !.manual = manual,
                                                   !.confirmed = confirmed, !.answer = answer]
    /\ IF v # NoErr
       THEN /\ ret' = TraceWrap(v)
            /\ fsmOps' = <<>>
            /\ UNCHANGED <<opState, planExists, plan, opResult, opsCreated>>
       ELSE IF ~confirmed /\ answer = "error"
       THEN /\ ret' = TraceWrap(Err("confirm"))
            /\ fsmOps' = <<>>
            /\ UNCHANGED <<opState, planExists, plan, opResult, opsCreated>>
       ELSE IF ~confirmed /\ answer = "no"
       THEN /\ ret' = NoErr
            /\ fsmOps' = <<>>
            /\ UNCHANGED <<opState, planExists, plan, opResult, opsCreated>>
       ELSE IF u.err # NoErr
       THEN /\ ret' = TraceWrap(u.err)
            /\ fsmOps' = <<>>
            /\ opResult' = u.call
            /\ UNCHANGED <<opState, planExists, plan, opsCreated>>
       ELSE /\ opsCreated' = opsCreated + 1
            /\ opResult' = u.call
            /\ planExists' = TRUE
            /\ IF manual
               THEN /\ plan' = NewPlan
                    /\ opState' = "created"
                    /\ fsmOps' = <<>>
                    /\ ret' = NoErr
               ELSE /\ plan' = run.plan
                    /\ opState' = run.state
                    /\ fsmOps' = run.ops
                    /\ ret' = TraceWrap(run.err)
    /\ UNCHANGED installerVars

\* executeOrForkPhase: the named phase is executed with the parameters of
\* the command
executeOrForkPhase(p, phase, failAt) ==
    ExecutePhase(p, Params(phase.ID, phase.Force, phase.DryRun), failAt # phase.ID)

\* executeConfigPhaseForOperation: the update environment and the updater
\* of the operation are made, an error of which is returned, and the
\* phase is executed
executeConfigPhaseForOperation(phase, envOk, failAt) ==
    LET r == executeOrForkPhase(plan, phase, failAt) IN
    /\ CanNewFSM(planExists, envOk)
    /\ cmd' = Cmd("executeConfigPhaseForOperation", phase)
    /\ IF ~envOk
       THEN /\ ret' = TraceWrap(Err("environment"))
            /\ fsmOps' = <<>>
            /\ UNCHANGED plan
       ELSE /\ ret' = r.err
            /\ fsmOps' = <<Worked(FsmOp("ExecutePhase",
                                        Params(phase.ID, phase.Force, phase.DryRun), NoErr),
                                  r.ran)>>
            /\ plan' = r.plan
    /\ UNCHANGED <<opState, planExists, opResult, opsCreated, installerVars>>

\* rollbackConfigPhaseForOperation: the update environment and the updater
\* of the operation are made, an error of which is returned, and the
\* phase is rolled back with the phase id, the force flag and the dry-run
\* flag of the command
rollbackConfigPhaseForOperation(phase, envOk, failAt) ==
    LET params == Params(phase.ID, phase.Force, phase.DryRun)
        r == RollbackPhase(plan, params, failAt # phase.ID) IN
    /\ CanNewFSM(planExists, envOk)
    /\ cmd' = Cmd("rollbackConfigPhaseForOperation", phase)
    /\ IF ~envOk
       THEN /\ ret' = TraceWrap(Err("environment"))
            /\ fsmOps' = <<>>
            /\ UNCHANGED plan
       ELSE /\ ret' = TraceWrap(r.err)
            /\ fsmOps' = <<Worked(FsmOp("RollbackPhase", params, NoErr), r.ran)>>
            /\ plan' = r.plan
    /\ UNCHANGED <<opState, planExists, opResult, opsCreated, installerVars>>

\* setConfigPhaseForOperation: the update environment and the updater of
\* the operation are made, an error of which is returned, and the state
\* of the phase is set; the error of SetPhase is returned as it is
setConfigPhaseForOperation(id, state, envOk) ==
    LET r == SetPhase(plan, id, state) IN
    /\ CanNewFSM(planExists, envOk)
    /\ cmd' = [Cmd("setConfigPhaseForOperation", PhaseRequest(id, FALSE, FALSE, FALSE, FALSE))
                 EXCEPT !.state = state]
    /\ IF ~envOk
       THEN /\ ret' = TraceWrap(Err("environment"))
            /\ fsmOps' = <<>>
            /\ UNCHANGED plan
       ELSE /\ ret' = r.err
            /\ fsmOps' = <<FsmOp("SetPhase", Params(id, FALSE, FALSE), NoErr)>>
            /\ plan' = r.plan
    /\ UNCHANGED <<opState, planExists, opResult, opsCreated, installerVars>>

\* ---------------------------------------------------------------------
\* Specifications
\* ---------------------------------------------------------------------
Phases == {"nil", "phase"}

\* Installer.Run with its teardown, common to the specifications
RunNext ==
    \/ RunStart
    \/ \E e \in ServerResults : ServerRunReturns(e)
    \/ RunSelectServer
    \/ RunDeferred
    \/ stopWithContext
    \/ abortWithContext

\* the execution token: concurrent Execute calls, whose request contexts
\* may be cancelled, while Run and its teardown go on
TokenNext ==
    \/ \E c \in Calls, phase \in Phases : ExecuteCall(c, phase)
    \/ \E c \in Calls : CancelRequest(c)
    \/ \E c \in Calls : waitTokenSend(c)
    \/ \E c \in Calls : waitTokenCtxDone(c)
    \/ \E c \in Calls : executePhase(c)
    \/ \E c \in Calls, startOk \in BOOLEAN : NotifyOperationAvailable(c, startOk)
    \/ \E c \in Calls : EngineReturn(c)
    \/ \E c \in Calls : releaseExecuteToken(c)
    \/ RunNext

SpecToken == Init /\ [][TokenNext]_vars

\* the Execute calls on their own, each goroutine scheduled as long as it
\* can take a step: a call at its select takes a case that is ready, work
\* that was started returns, and a receive that can go through does
CallsNext ==
    \/ \E c \in Calls, phase \in Phases : ExecuteCall(c, phase)
    \/ \E c \in Calls : CancelRequest(c)
    \/ \E c \in Calls : waitTokenSend(c)
    \/ \E c \in Calls : waitTokenCtxDone(c)
    \/ \E c \in Calls : executePhase(c)
    \/ \E c \in Calls : EngineReturn(c)
    \/ \E c \in Calls : releaseExecuteToken(c)

CallsFairness ==
    \A c \in Calls :
        /\ WF_vars(waitTokenSend(c) \/ waitTokenCtxDone(c))
        /\ WF_vars(executePhase(c))
        /\ WF_vars(EngineReturn(c))
        /\ WF_vars(releaseExecuteToken(c))

SpecCalls == Init /\ [][CallsNext]_vars /\ CallsFairness

\* Run and the events it waits for: the server, the agent's serve loops,
\* which the engine starts through NotifyOperationAvailable, and doneC
LifeNext ==
    \/ \E c \in EngineCalls : ExecuteCall(c, "nil")
    \/ \E c \in EngineCalls : waitTokenSend(c)
    \/ \E c \in EngineCalls, startOk \in BOOLEAN : NotifyOperationAvailable(c, startOk)
    \/ \E c \in EngineCalls : EngineReturn(c)
    \/ \E c \in EngineCalls : releaseExecuteToken(c)
    \/ \E k \in Chans, e \in AgentResults, late \in BOOLEAN : ServeReturns(k, e, late)
    \/ CloseDone
    \/ RunSelectAgent
    \/ RunSelectDone
    \/ RunNext

SpecRun == Init /\ [][LifeNext]_vars

\* the registries and the teardown: the engine registers handlers through
\* the Interface, and waits in CompleteOperationAndWait
TeardownNext ==
    \/ \E c \in EngineCalls : ExecuteCall(c, "nil")
    \/ \E c \in EngineCalls : waitTokenSend(c)
    \/ \E c \in EngineCalls, startOk \in BOOLEAN : NotifyOperationAvailable(c, startOk)
    \/ \E c \in EngineCalls, uploadOk \in BOOLEAN, auditOk \in BOOLEAN :
          CompleteOperation(c, uploadOk, auditOk)
    \/ \E c \in EngineCalls, uploadOk \in BOOLEAN, auditOk \in BOOLEAN :
          CompleteOperationAndWait(c, uploadOk, auditOk)
    \/ \E c \in EngineCalls : waitRange(c)
    \/ \E c \in EngineCalls : waitStopper(c)
    \/ \E c \in EngineCalls : processWait(c)
    \/ \E c \in EngineCalls : EngineReturn(c)
    \/ \E c \in EngineCalls : releaseExecuteToken(c)
    \/ RunNext

SpecTeardown == Init /\ [][TeardownNext]_vars

\* requests on the plan of the installer's operation: Execute,
\* ExecuteOperation and Complete
ExecuteRequests == {NoPhase} \cup PhaseRequests
FailAts == 0..NumPhases

\* the phases whose work may fail in a request; one outcome stands for
\* all where the request gets to no work
WorkOutcomes(phase, fsmOk) ==
    IF phase.isNil THEN {0, 1}
    ELSE IF ~fsmOk THEN {0}
    ELSE IF IsResume(phase) THEN FailAts
    ELSE {0, phase.ID}

OpsNext ==
    \/ \E phase \in ExecuteRequests, fsmOk \in BOOLEAN :
          \E failAt \in WorkOutcomes(phase, fsmOk) : Execute(phase, fsmOk, failAt)
    \/ \E initOk \in BOOLEAN, fsmOk \in BOOLEAN, failAt \in FailAts, completeOk \in BOOLEAN :
          ExecuteOperation(initOk, fsmOk, failAt, completeOk)
    \/ \E fsmOk \in BOOLEAN, completeOk \in BOOLEAN : Complete(fsmOk, completeOk)

\* the requests do not read the local agent: the installer has none
OpsInit == Init /\ ~agent

SpecOps == OpsInit /\ [][OpsNext]_vars

\* an operation that is run, killed or failed, and resumed
ResumeRequests == {phase \in PhaseRequests : IsResume(phase) /\ ~phase.DryRun}

ResumeNext ==
    \/ \E initOk \in BOOLEAN, fsmOk \in BOOLEAN, failAt \in FailAts, completeOk \in BOOLEAN :
          ExecuteOperation(initOk, fsmOk, failAt, completeOk)
    \/ \E killAt \in PhaseIds, started \in BOOLEAN : ExecuteOperationKilled(killAt, started)
    \/ \E phase \in ResumeRequests, fsmOk \in BOOLEAN :
          \E failAt \in WorkOutcomes(phase, fsmOk) : Execute(phase, fsmOk, failAt)

SpecResume == OpsInit /\ [][ResumeNext]_vars

\* the plan under every request that writes it: the execution of the
\* whole plan, the execution and the rollback of one phase, forced or not,
\* and the override of the state of a phase
SinglePhaseRequests == {phase \in PhaseRequests : ~IsResume(phase) /\ ~phase.DryRun}

PlanNext ==
    \/ \E failAt \in FailAts, completeOk \in BOOLEAN :
          ExecuteOperation(TRUE, TRUE, failAt, completeOk)
    \/ \E phase \in SinglePhaseRequests :
          \E failAt \in WorkOutcomes(phase, TRUE) : Execute(phase, TRUE, failAt)
    \/ \E id \in PhaseIds, state \in PhaseStates, envOk \in BOOLEAN :
          setConfigPhaseForOperation(id, state, envOk)

SpecPlan == OpsInit /\ [][PlanNext]_vars

\* the cluster configuration commands: updateConfig, and the execution and
\* the rollback of a phase of the operation it created
ExecutePhaseCommands ==
    {PhaseRequest(id, FALSE, FALSE, force, dryRun) :
        id \in PhaseIds, force \in BOOLEAN, dryRun \in BOOLEAN}
RollbackPhaseCommands ==
    {PhaseRequest(id, FALSE, TRUE, force, dryRun) :
        id \in PhaseIds, force \in BOOLEAN, dryRun \in BOOLEAN}
AnswersTo(confirmed) == IF confirmed THEN {"none"} ELSE {"yes", "no", "error"}

\* how making the updater and running it turn out; one outcome stands for
\* all where updateConfig returns before it gets to them
UpdaterOutcomes(in, manual, answer) ==
    IF validateClusterConfig(in) # NoErr \/ answer \in {"no", "error"}
    THEN {<<TRUE, KeyErr(1, NoErr), 0>>}
    ELSE {<<FALSE, KeyErr(1, NoErr), 0>>}
         \cup {<<TRUE, result, failAt>> :
                 result \in CreateResults,
                 failAt \in (IF manual THEN {0} ELSE FailAts)}

ConfigNext ==
    \/ \E in \in ConfigInputs, manual \in BOOLEAN, confirmed \in BOOLEAN :
          \E answer \in AnswersTo(confirmed) :
             \E o \in UpdaterOutcomes(in, manual, answer) :
                updateConfig(in, manual, confirmed, answer, o[1], o[2], o[3])
    \/ \E phase \in ExecutePhaseCommands, envOk \in BOOLEAN, failAt \in FailAts :
          executeConfigPhaseForOperation(phase, envOk, failAt)
    \/ \E phase \in RollbackPhaseCommands, envOk \in BOOLEAN, failAt \in FailAts :
          rollbackConfigPhaseForOperation(phase, envOk, failAt)

\* updateConfig is the first command, on a cluster with no operation of
\* the kind in progress
SpecConfig == OpsInit /\ [][ConfigNext]_vars

TypeOK ==
    /\ executeSema \in 0..SemaCapacity
    /\ \A c \in Calls : callPc[c] \in {"idle", "token", "release", "done"} \cup WorkPcs
    /\ Len(stoppers) <= MaxHandlers
    /\ Len(aborters) <= MaxHandlers


\* ---------------------------------------------------------------------
\* The execution token (SpecToken)
\* ---------------------------------------------------------------------
\* C1: at any instant at most one Execute call is inside its phase-work
\* section, between waitForExecuteToken and releaseExecuteToken.
C1_AtMostOneInPhaseWork == Cardinality({c \in Calls : InWork(c)}) <= 1

\* C2: a call whose request context was cancelled while it waited, and
\* whose send on the semaphore never went through, does no phase work and
\* does not get to take a token out of the semaphore.
C2_CancelledWaiterDoesNoWork ==
    \A c \in Calls : callPc[c] \in WorkPcs \cup {"release"} => callAcquired[c]

AbortDone == TdPath = "abort" /\ tdPc = "done"

\* C3 as stated: once the abort path has completed the execution token is
\* free.
C3_TokenFreeAfterAbort == AbortDone => executeSema = 0

\* C3, amended: no step of the abort path touches the execution token; a
\* token held when the abort began stays held until an Execute call runs
\* releaseExecuteToken.
C3_AbortLeavesToken == [][abortWithContext => executeSema' = executeSema]_vars

\* the abort path has completed while an Execute call that acquired the
\* token is still in its phase work
C3_AbortDoneTokenHeld ==
    /\ AbortDone
    /\ executeSema = 1
    /\ \E c \in Calls : InWork(c) /\ callAcquired[c]


\* ---------------------------------------------------------------------
\* Run and its teardown (SpecRun)
\* ---------------------------------------------------------------------
RunReturned == runPc \in {"defer", "teardown", "exit"}

\* C4: every return of Run triggers exactly one teardown path: the abort
\* path if and only if the returned error is abort-class, the stop path
\* otherwise, a nil return included; no path starts before Run returns.
C4_OneTeardownPerReturn ==
    /\ ~RunReturned => tdStarts = <<>>
    /\ runPc = "defer" => tdStarts = <<>>
    /\ runPc \in {"teardown", "exit"} =>
          /\ Len(tdStarts) = 1
          /\ tdStarts[1] = (IF IsAbortedErr(runErr) THEN "abort" ELSE "stop")

\* Run returned nil and the stop path ran to its end
C4_NilReturnStops == runPc = "exit" /\ runErr = NoErr /\ tdStarts = <<"stop">>

RunSelect == RunSelectServer \/ RunSelectAgent \/ RunSelectDone

\* the value a serve loop of the agent reported, wrapped by Run
ReportedBy(k) == loops[k] = "returned" /\ runErr = TraceWrap(loopResult[k])

\* C5 as stated: Run returns through one of three events, the server's Run
\* terminating (its result is returned), the local agent terminating with
\* an error (that error is returned) or the done channel closing (nil).
C5_ReturnsOnThreeEvents ==
    RunReturned =>
        \/ runCause = "server" /\ serverState = "terminated"
                               /\ runErr = TraceWrap(serverResult)
        \/ runCause = "agent" /\ \E k \in Chans : ReportedBy(k) /\ loopResult[k] # NoErr
        \/ runCause = "done" /\ doneClosed /\ runErr = NoErr

\* C5, amended: the agent's event is a serve loop of the agent terminating,
\* with an error or without, and reporting on the channel the select of Run
\* waits on; Run then returns the reported value, nil included. Run returns
\* through one of the three events only, and is never blocked at its select
\* once one of them has occurred.
C5_ReturnsOnServerAgentOrDone ==
    /\ RunReturned =>
          \/ runCause = "server" /\ serverState = "terminated"
                                 /\ runErr = TraceWrap(serverResult)
          \/ runCause = "agent" /\ \E k \in Chans : ReportedBy(k)
          \/ runCause = "done" /\ doneClosed /\ runErr = NoErr
    /\ (/\ runPc = "select"
        /\ \/ errC # <<>>
           \/ doneClosed
           \/ runChan # 0 /\ chanBuf[runChan] # <<>>) => ENABLED RunSelect

\* Run returned nil because a serve loop of the agent returned nil
C5_AgentReturnedNil == runPc = "exit" /\ runCause = "agent" /\ runErr = NoErr

\* ---------------------------------------------------------------------
\* The teardown paths and the registries (SpecTeardown)
\* ---------------------------------------------------------------------
Steps(ev) == {i \in 1..Len(tdLog) : tdLog[i].ev = ev}
Has(ev) == Steps(ev) # {}
Rank(ev) ==
    CASE ev = "cancel" -> 1
      [] ev = "agentStop" -> 2
      [] ev = "handler" -> 3
      [] ev = "shutdown" -> 4
      [] ev = "serverStop" -> 5

\* the steps of the log are in the order of the ranks, none but the
\* handlers' more than once
InRankOrder ==
    /\ \A i, j \in 1..Len(tdLog) : i < j => Rank(tdLog[i].ev) <= Rank(tdLog[j].ev)
    /\ \A ev \in {"cancel", "agentStop", "shutdown", "serverStop"} :
          Cardinality(Steps(ev)) <= 1

\* the handlers the path invoked, in the order of their invocation
RECURSIVE Invoked(_)
Invoked(log) ==
    IF log = <<>> THEN <<>>
    ELSE IF Head(log).ev = "handler" THEN <<Head(log).h>> \o Invoked(Tail(log))
    ELSE Invoked(Tail(log))

\* those of them that returned an error
RECURSIVE Failed(_)
Failed(log) ==
    IF log = <<>> THEN <<>>
    ELSE IF Head(log).ev = "handler" /\ Head(log).failed
         THEN <<Head(log).h>> \o Failed(Tail(log))
    ELSE Failed(Tail(log))

Elems(seq) == {seq[i] : i \in 1..Len(seq)}
Count(seq, x) == Cardinality({i \in 1..Len(seq) : seq[i] = x})

StopDone == TdPath = "stop" /\ tdPc = "done"

\* C6: the stop path cancels the internal context, stops the local agent
\* when one is configured, runs the stoppers, shuts down the process and
\* stops the server, in this order, and the last two steps are performed
\* also when a stopper returned an error.
C6_StopPathOrder ==
    TdPath = "stop" =>
        /\ InRankOrder
        /\ Has("cancel") => ctxDone
        /\ Has("agentStop") => agent /\ agentStopped /\ Has("cancel")
        /\ Has("handler") => Has("cancel") /\ (agent => Has("agentStop"))
        /\ Has("shutdown") => /\ procShutdown
                              /\ Has("cancel") /\ (agent => Has("agentStop"))
                              /\ Elems(Invoked(tdLog)) = Elems(tdList)
        /\ Has("serverStop") => serverStopped /\ Has("shutdown")
        /\ tdPc = "done" => Has("shutdown") /\ Has("serverStop")

\* the stop path ran to its end with an agent and a failing stopper
C6_StoppedWithFailingStopper == StopDone /\ agent /\ tdErrors # <<>>

\* C7: the abort path cancels the internal context, runs every aborter,
\* shuts down the process and stops the server, in this order: the context
\* is cancelled before any aborter runs, the server is stopped after all
\* aborters returned.
C7_AbortPathOrder ==
    TdPath = "abort" =>
        /\ InRankOrder
        /\ ~Has("agentStop")
        /\ tdPc # "cancel" => ctxDone /\ Has("cancel")
        /\ Has("handler") => ctxDone /\ Has("cancel")
        /\ Has("shutdown") => /\ procShutdown
                              /\ Has("cancel")
                              /\ Elems(Invoked(tdLog)) = Elems(tdList)
        /\ Has("serverStop") => serverStopped /\ Has("shutdown")
        /\ tdPc = "done" => Has("shutdown") /\ Has("serverStop")

\* the abort path ran to its end and invoked an aborter
C7_AbortedWithAborters == AbortDone /\ Len(Invoked(tdLog)) >= 1 /\ serverStopped

\* C8: in both paths every handler of the list is invoked, whichever of
\* them fail, and the path returns the aggregate of exactly the errors of
\* the failing handlers, nil when none failed.
C8_NoShortCircuit ==
    tdPc \in {"server", "done"} =>
        /\ Len(Invoked(tdLog)) = Len(tdList)
        /\ Elems(Invoked(tdLog)) = Elems(tdList)
        /\ tdErrors = Failed(tdLog)
        /\ tdPc = "done" =>
              IF Failed(tdLog) = <<>>
              THEN tdResult = NoErr
              ELSE tdResult.kind = "aggregate" /\ tdResult.errs = Failed(tdLog)

\* a path ran to its end whose first handler failed and whose second did not
C8_FirstFailedSecondRan ==
    /\ tdPc = "done"
    /\ Len(tdList) = 2
    /\ Failed(tdLog) = <<tdList[1]>>
    /\ Invoked(tdLog) = tdList

\* handlers are numbered in the order of their registration
LaterFirst(seq) == \A i, j \in 1..Len(seq) : i < j => seq[i] > seq[j]
EarlierFirst(seq) == \A i, j \in 1..Len(seq) : i < j => seq[i] < seq[j]

TdInvoked(h) == Count(Invoked(tdLog), h)

\* C10 as stated: over the lifetime of the installer every registered
\* stopper and every registered aborter is invoked at most once.
C10_EachHandlerOnce ==
    \A h \in HandlerIds :
        /\ waitInvoked[h] + (IF TdPath = "stop" THEN TdInvoked(h) ELSE 0) <= 1
        /\ TdPath = "abort" => TdInvoked(h) <= 1

\* C10, amended: the teardown path that Run starts invokes every handler
\* of its registry at most once, and every wait() of
\* CompleteOperationAndWait invokes every stopper at most once more: a
\* stopper is invoked once per iteration of the list, not once in all.
C10_OncePerIteration ==
    \A h \in HandlerIds :
        /\ TdInvoked(h) <= 1
        /\ waitInvoked[h] <= waitsRun

\* a stopper was invoked by a wait() and again by the stop path
C10_StopperInvokedTwice ==
    /\ StopDone
    /\ \E h \in HandlerIds : waitInvoked[h] >= 1 /\ TdInvoked(h) = 1

\* ---------------------------------------------------------------------
\* The choice of the teardown path and the local agent (SpecRun)
\* ---------------------------------------------------------------------
\* an abort is requested: the server's Run terminated with an abort-class
\* error
AbortRequested == serverState = "terminated" /\ IsAbortedErr(serverResult)

\* C11 as stated: when an abort was requested by the time the stop path
\* completes, the stop path has run the registered aborters in addition to
\* the stoppers.
C11_AbortOverridesStop ==
    [][(/\ TdPath = "stop"
        /\ tdPc = "server"
        /\ tdPc' = "done"
        /\ AbortRequested
        /\ aborters # <<>>)
       => Len(Invoked(tdLog')) >= Len(tdList) + Len(aborters)]_vars

\* C11, amended: the teardown path is chosen once, when Run returns, and an
\* abort requested afterwards changes nothing: no second path starts, and
\* the stop path invokes handlers of the stoppers' registry only, as many
\* as the registry held when the loop began, and no aborter.
C11_StopPathRunsStoppersOnly ==
    TdPath = "stop" =>
        /\ tdStarts = <<"stop">>
        /\ IsPrefix(tdList, stoppers)
        /\ IsPrefix(Invoked(tdLog), tdList)

\* the stop path ran to its end although the server had terminated with an
\* abort-class error that Run never received, and no aborter was invoked
C11_StoppedDespiteAbort ==
    /\ StopDone
    /\ AbortRequested
    /\ runCause # "server"
    /\ aborters # <<>>
    /\ Invoked(tdLog) = <<>>

\* the local agent was configured and started
AgentStarted == agent /\ agentErrC # 0

\* C12: after either teardown path has completed, the local agent, when
\* configured and started, has been stopped.
C12_AgentStoppedAfterTeardown ==
    (tdPc = "done" /\ AgentStarted) => agentStopped

\* ---------------------------------------------------------------------
\* Requests on the plan (SpecOps)
\* ---------------------------------------------------------------------
\* the operation a request is to be dispatched to
ExecuteDispatch(phase) ==
    IF phase.isNil THEN "Engine.Execute"
    ELSE IF phase.Resume THEN "executeOperation"
    ELSE IF phase.Rollback THEN "RollbackPhase"
    ELSE "ExecutePhase"

C14_DryRunChangesNoPhase ==
    [][(/\ cmd'.name \in {"Execute", "rollbackConfigPhaseForOperation"}
        /\ ~cmd'.phase.isNil
        /\ ~cmd'.phase.Resume
        /\ cmd'.phase.DryRun)
       => plan' = plan]_vars

\* C15: in ExecuteOperation an initialisation of the plan that fails with
\* already-exists counts as success and the existing plan is executed; any
\* other error of the initialisation, and a failure to make the FSM, are
\* returned with the plan not executed and the operation not completed.
C15_InitErrors ==
    [][\A initOk \in BOOLEAN, fsmOk \in BOOLEAN, failAt \in FailAts, completeOk \in BOOLEAN :
         (cmd'.name = "ExecuteOperation" /\ ExecuteOperation(initOk, fsmOk, failAt, completeOk)) =>
            /\ (planExists /\ fsmOk) =>
                  /\ Len(fsmOps') = 2
                  /\ fsmOps'[1].op = "ExecutePlan"
                  /\ fsmOps'[2].op = "Complete"
                  /\ plan' = ExecutePlan(plan, failAt).plan
                  /\ ~IsAlreadyExists(ret')
                  /\ ret' = NoErr => opState' = "completed"
            /\ (~planExists /\ ~initOk) =>
                  /\ ret'.kind = "planner"
                  /\ fsmOps' = <<>>
                  /\ UNCHANGED <<planExists, plan, opState>>
            /\ ~fsmOk =>
                  /\ ret' # NoErr
                  /\ fsmOps' = <<>>
                  /\ opState' = opState
                  /\ \A k \in PhaseIds : planExists => plan'[k] = plan[k]
                  /\ \A k \in PhaseIds : ~planExists => plan'[k] = "unstarted"]_vars

\* ExecuteOperation executed a plan that was there before, as the phase an
\* earlier request rolled back shows, and completed the operation
C15_ExistingPlanExecuted ==
    /\ cmd.name = "ExecuteOperation"
    /\ Len(fsmOps) = 2
    /\ ret = NoErr
    /\ opState = "completed"
    /\ \E k \in PhaseIds : plan[k] = "rolled-back"

\* C16: Complete, called for an operation whose FSM can be made, completes
\* the FSM with the error "completed manually", which forces the operation
\* to failed, whatever phases of the plan are incomplete, and leaves the
\* state of every phase as it is; when the FSM cannot be made or its
\* Complete fails the error is returned and the operation stays as it is.
C16_CompleteForcesFailed ==
    [][\A fsmOk \in BOOLEAN, completeOk \in BOOLEAN :
         (cmd'.name = "Complete" /\ Complete(fsmOk, completeOk)) =>
            /\ plan' = plan
            /\ planExists' = planExists
            /\ fsmOk => fsmOps' = <<FsmOp("Complete", NoParams, ManualError)>>
            /\ (fsmOk /\ completeOk) => opState' = "failed" /\ ret' = NoErr
            /\ ~(fsmOk /\ completeOk) => opState' = opState /\ ret' # NoErr]_vars

\* Complete returned nil for a plan with an unstarted phase, and the
\* operation is failed
C16_FailedWithUnstartedPhase ==
    /\ cmd.name = "Complete"
    /\ ret = NoErr
    /\ opState = "failed"
    /\ planExists
    /\ \E k \in PhaseIds : plan[k] = "unstarted"

\* ---------------------------------------------------------------------
\* The cluster configuration commands (SpecConfig)
\* ---------------------------------------------------------------------
\* the update is invalid: a range of it holds the advertise address of the
\* local node, or the operator or the check against the existing
\* configuration rejects it
ConflictsWith(cidr, ip) == cidr.set /\ Contains(cidr, ip)
InvalidUpdate(in) ==
    \/ in.env # "ok"
    \/ ConflictsWith(in.ServiceCIDR, in.AdvertiseIP)
    \/ ConflictsWith(in.PodCIDR, in.AdvertiseIP)

\* the step is a call of updateConfig with the arguments cmd' records
UpdateConfigStep(marshalOk, result, failAt) ==
    /\ cmd'.name = "updateConfig"
    /\ updateConfig(cmd'.config, cmd'.manual, cmd'.confirmed, cmd'.answer,
                 marshalOk, result, failAt)

\* C17: updateConfig with an invalid update returns an error and creates
\* no operation and no plan, whatever manual and confirmed are: the
\* validation comes before the operation is created.
C17_ValidationFirst ==
    [][\A marshalOk \in BOOLEAN, result \in CreateResults, failAt \in FailAts :
         (UpdateConfigStep(marshalOk, result, failAt) /\ InvalidUpdate(cmd'.config)) =>
            /\ ret' # NoErr
            /\ fsmOps' = <<>>
            /\ UNCHANGED <<opState, planExists, plan, opsCreated, opResult>>]_vars

\* a confirmed manual update whose service range holds the advertise
\* address was refused, with no operation created
C17_ConflictRefused ==
    /\ cmd.name = "updateConfig"
    /\ cmd.manual /\ cmd.confirmed
    /\ cmd.config.env = "ok"
    /\ ConflictsWith(cmd.config.ServiceCIDR, cmd.config.AdvertiseIP)
    /\ ret.kind = "precondition-failed"
    /\ opsCreated = 0
    /\ ~planExists

\* C18: a manual, valid and confirmed updateConfig whose updater can be
\* made creates the operation and its plan, executes no phase, every phase
\* staying unstarted, and returns nil (when the updater cannot be made its
\* error is returned and nothing is created); a later execution of a phase
\* changes the state of the named phase only.
C18_ManualCreatesOnly ==
    [][/\ \A marshalOk \in BOOLEAN, result \in CreateResults, failAt \in FailAts :
            (/\ UpdateConfigStep(marshalOk, result, failAt)
             /\ cmd'.manual
             /\ ~InvalidUpdate(cmd'.config)
             /\ cmd'.confirmed \/ cmd'.answer = "yes") =>
               /\ fsmOps' = <<>>
               /\ IF marshalOk /\ result.err = NoErr
                  THEN /\ opsCreated' = opsCreated + 1
                       /\ planExists'
                       /\ \A k \in PhaseIds : plan'[k] = "unstarted"
                       /\ opState' = "created"
                       /\ ret' = NoErr
                  ELSE /\ ret' # NoErr
                       /\ UNCHANGED <<opsCreated, planExists, plan, opState>>
       /\ \A envOk \in BOOLEAN, failAt \in FailAts :
            (/\ cmd'.name = "executeConfigPhaseForOperation"
             /\ executeConfigPhaseForOperation(cmd'.phase, envOk, failAt)) =>
               \A k \in PhaseIds \ {cmd'.phase.ID} : plan'[k] = plan[k]]_vars

\* the first phase of the operation a manual updateConfig created was
\* executed on its own: it is completed, every other phase unstarted, and
\* the operation not completed
C18_FirstPhaseExecutedAlone ==
    /\ cmd.name = "executeConfigPhaseForOperation"
    /\ opsCreated = 1
    /\ opState = "created"
    /\ plan[1] = "completed"
    /\ \A k \in PhaseIds \ {1} : plan[k] = "unstarted"

\* C19: newOperation returns not-implemented exactly when the operator's
\* call failed with not-found; any other error of the operator is returned
\* with its kind; without an error the operator's key is returned; with an
\* error no key is returned.
C19_NewOperationErrors ==
    opResult.called =>
        LET in == opResult.in
            out == opResult.out IN
        /\ (out.err.kind = "not-implemented") <=> (in.err # NoErr /\ IsNotFound(in.err))
        /\ (in.err # NoErr /\ ~IsNotFound(in.err)) => out.err.kind = in.err.kind
        /\ in.err = NoErr => out = KeyErr(in.key, NoErr)
        /\ in.err # NoErr => out.err # NoErr /\ out.key = NilKey

\* the operator answered not-found, with a key, and updateConfig returned
\* not-implemented
C19_NotFoundBecameNotImplemented ==
    /\ opResult.called
    /\ IsNotFound(opResult.in.err)
    /\ opResult.in.key # NilKey
    /\ opResult.out = KeyErr(NilKey, Err("not-implemented"))
    /\ cmd.name = "updateConfig"
    /\ ret.kind = "not-implemented"

\* ---------------------------------------------------------------------
\* The completion events (SpecTeardown)
\* ---------------------------------------------------------------------
HasStatus(status) == status # "none"
StatusEvents(evs) == SelectSeq(evs, HasStatus)
Waiting(c) == callPc[c] \in {"wait", "waitStoppers", "procWait"}

WaitInvokedSet == {h \in HandlerIds : waitInvoked[h] > 0}

\* C21: handlers are registered by two events only. The aborters' registry
\* grows by one handler in a NotifyOperationAvailable whose startAgent
\* returned nil, which with an agent configured means a serve loop was
\* started; the stoppers' registry grows by one handler in a
\* completeOperation; no other step changes a registry. So every handler
\* the stop path or a wait() invokes is a stopper that a completeOperation
\* registered, and every handler the abort path invokes is an aborter that
\* a NotifyOperationAvailable registered.
C21_RegisteredByTwoEvents ==
    [][/\ aborters' # aborters =>
             /\ \E c \in EngineCalls : NotifyOperationAvailable(c, TRUE)
             /\ aborters' = Append(aborters, Len(aborters) + 1)
             /\ agent => agentErrC' # agentErrC /\ loops'[agentErrC'] = "serving"
       /\ stoppers' # stoppers =>
             /\ \E c \in EngineCalls : CompleteStep(c)
             /\ stoppers' = Append(stoppers, Len(stoppers) + 1)
       /\ TdPath' = "stop" => Elems(Invoked(tdLog')) \subseteq Elems(stoppers')
       /\ TdPath' = "abort" => Elems(Invoked(tdLog')) \subseteq Elems(aborters')
       /\ WaitInvokedSet' \subseteq Elems(stoppers')]_vars

\* the abort path invoked the aborter of an operation whose agent was
\* started, while the stopper a completeOperation registered was left alone
C21_AborterOfStartedAgentRan ==
    /\ AbortDone
    /\ agent
    /\ Invoked(tdLog) = <<1>>
    /\ aborters = <<1>>
    /\ stoppers # <<>>
    /\ WaitInvokedSet = {}

\* ---------------------------------------------------------------------
\* The errors of completeOperation (SpecTeardown)
\* ---------------------------------------------------------------------
\* C26: in completeOperation a failure to upload the install log or to
\* emit the audit events does not stop the completion: whichever of the
\* two fail, the stopper is registered, the elapsed-time event and then
\* the event carrying the status are sent, in this order, and the error
\* returned is the aggregate of exactly the errors of the failing steps,
\* nil when neither failed.
C26_CompletionGoesOn ==
    [][\A c \in EngineCalls, uploadOk \in BOOLEAN, auditOk \in BOOLEAN :
         \A status \in {"completed", "completed-pending"} :
            completeOperation(c, status, callPc'[c], uploadOk, auditOk) =>
               /\ stoppers' = Append(stoppers, Len(stoppers) + 1)
               /\ events' = events \o <<"none", status>>
               /\ (uploadOk /\ auditOk) <=> coErr' = NoErr
               /\ ~(uploadOk /\ auditOk) =>
                     /\ coErr'.kind = "aggregate"
                     /\ Elems(coErr'.errs) =
                           {e \in {UploadErr} : ~uploadOk} \cup {e \in {AuditErr} : ~auditOk}
                     /\ Len(coErr'.errs) = Cardinality(Elems(coErr'.errs))]_vars

\* the upload and the audit events both failed, and the operation was
\* completed all the same: its stopper is registered and the event with
\* the status follows the elapsed-time event
C26_BothFailedStillCompleted ==
    /\ coErr = NewAggregate(<<UploadErr, AuditErr>>)
    /\ stoppers # <<>>
    /\ Len(events) >= 2
    /\ events[Len(events) - 1] = "none"
    /\ HasStatus(events[Len(events)])

\* ---------------------------------------------------------------------
\* The return of Execute (SpecCalls)
\* ---------------------------------------------------------------------
\* C25: every Execute call whose work has returned eventually returns, the
\* release of the token never blocking, and whenever no Execute call is
\* active the execution token is free.
C25_ExecuteReturns ==
    /\ \A c \in Calls : (callPc[c] = "release") ~> (callPc[c] = "done")
    /\ []((\A c \in Calls : callPc[c] \in {"idle", "done"}) => executeSema = 0)

\* ---------------------------------------------------------------------
\* Registration during the teardown (SpecTeardown)
\* ---------------------------------------------------------------------
\* the registry the teardown path goes through
TdRegistry == IF TdPath = "stop" THEN stoppers ELSE aborters

\* C28: no handler is appended to a registry during or after the
\* iteration of its list by the teardown path, and every handler
\* registered in the registry has been invoked when the path is through.
C28_NoRegistrationDuringTeardown ==
    /\ tdPc \in {"loop", "server", "done"} => TdRegistry = tdList
    /\ tdPc = "done" => Elems(TdRegistry) \subseteq Elems(Invoked(tdLog))

\* ---------------------------------------------------------------------
\* The serve loops of the local agent (SpecRun)
\* ---------------------------------------------------------------------
\* C29: the serve loop of the local agent is started at most once, no two
\* serve loops run at a time, and the channel the select of Run waits on
\* is the channel i.agentErrC holds, which the serve loop reports to.
C29_OneServeLoop ==
    /\ ChansMade <= 1
    /\ Cardinality({k \in Chans : loops[k] = "serving"}) <= 1
    /\ runPc = "select" => runChan = agentErrC

\* ---------------------------------------------------------------------
\* The context of the work (SpecToken)
\* ---------------------------------------------------------------------
\* a teardown path has performed its first statement, i.cancel()
TeardownBegun == tdPc \notin {"none", "cancel"}

\* C30: the work of an Execute call runs under the installer's internal
\* context: that context is cancelled by the first statement of the stop
\* path and of the abort path and by nothing else, so the work sees it
\* cancelled exactly when a teardown path has begun; a cancellation of the
\* request's context, before or after the token was acquired, leaves the
\* context of the work and the position of the call as they are.
C30_WorkUnderInternalContext ==
    [][/\ \A c \in Calls : InWork(c)' => (WorkCtxDone(c)' <=> TeardownBegun')
       /\ (ctxDone' /\ ~ctxDone) => tdCancel("stop", "agent") \/ tdCancel("abort", "range")
       /\ \A c \in Calls :
             CancelRequest(c) =>
                /\ callPc'[c] = callPc[c]
                /\ \A d \in Calls : WorkCtxDone(d)' = WorkCtxDone(d)]_vars

\* a call that acquired the token is in its work, the context of its
\* request is cancelled and the internal context is not
C30_RequestCancelledWorkGoesOn ==
    \E c \in Calls :
        /\ InWork(c)
        /\ callAcquired[c]
        /\ callCtxDone[c]
        /\ ~WorkCtxDone(c)
        /\ tdPc = "none"

\* ---------------------------------------------------------------------
\* The execution of the plan by ExecuteOperation (SpecOps)
\* ---------------------------------------------------------------------
\* the plan ExecuteOperation executes: the one persisted, or a new one
PlanToExecute == IF planExists THEN plan ELSE NewPlan

\* C22: when the plan is executed and the work of a phase fails, the
\* phase is persisted as failed, it is the last phase the execution ran,
\* every phase after it in the order of the plan keeps its state, an
\* unstarted one staying unstarted, and ExecuteOperation returns the
\* failure, which it has also handed to Complete.
C22_FailureHaltsPlan ==
    [][\A initOk \in BOOLEAN, fsmOk \in BOOLEAN, completeOk \in BOOLEAN, failAt \in PhaseIds :
         (/\ cmd'.name = "ExecuteOperation"
          /\ ExecuteOperation(initOk, fsmOk, failAt, completeOk)
          /\ Len(fsmOps') = 2
          /\ failAt \in Elems(fsmOps'[1].ran)) =>
            LET ran == fsmOps'[1].ran IN
            /\ plan'[failAt] = "failed"
            /\ ran[Len(ran)] = failAt
            /\ \A k \in PhaseIds : k > failAt => plan'[k] = PlanToExecute[k]
            /\ \A k \in PhaseIds : k < failAt /\ k \in Elems(ran) => plan'[k] = "completed"
            /\ ret'.kind = "phase-failed"
            /\ fsmOps'[2].err.kind = "phase-failed"]_vars

\* ExecuteOperation made the plan, the work of its first phase failed, the
\* phase after it is unstarted and the failure was returned
C22_FirstPhaseFailed ==
    /\ cmd.name = "ExecuteOperation"
    /\ ret.kind = "phase-failed"
    /\ Len(fsmOps) = 2
    /\ fsmOps[1].ran = <<1>>
    /\ plan[1] = "failed"
    /\ \A k \in PhaseIds \ {1} : plan[k] = "unstarted"
    /\ opState = "failed"

\* C27: ExecuteOperation, once it has the FSM, calls Complete exactly
\* once, after ExecutePlan, with the error ExecutePlan returned, nil when
\* the plan succeeded; it returns the error of the plan when there is one,
\* and the error of Complete only when the plan succeeded: a failure of
\* Complete never replaces a failure of the plan.
C27_CompleteOnceWithPlanError ==
    [][\A initOk \in BOOLEAN, completeOk \in BOOLEAN, failAt \in FailAts :
         (/\ cmd'.name = "ExecuteOperation"
          /\ ExecuteOperation(initOk, TRUE, failAt, completeOk)
          /\ planExists \/ initOk) =>
            LET planErr == ExecutePlan(PlanToExecute, failAt).err IN
            /\ Len(fsmOps') = 2
            /\ fsmOps'[1].op = "ExecutePlan"
            /\ fsmOps'[2].op = "Complete"
            /\ fsmOps'[2].err = planErr
            /\ planErr # NoErr => ret' = TraceWrap(planErr)
            /\ (planErr = NoErr /\ completeOk) => ret' = NoErr
            /\ (planErr = NoErr /\ ~completeOk) => ret'.kind = "complete"
            /\ completeOk => opState' = (IF planErr = NoErr THEN "completed" ELSE "failed")
            /\ ~completeOk => opState' = opState]_vars

\* the plan failed and Complete, called with the failure, failed too: the
\* operation is left as it was and the failure of the plan was returned
C27_PlanErrorKept ==
    /\ cmd.name = "ExecuteOperation"
    /\ Len(fsmOps) = 2
    /\ fsmOps[2].op = "Complete"
    /\ fsmOps[2].err.kind = "phase-failed"
    /\ opState = "created"
    /\ ret = TraceWrap(Err("phase-failed"))

\* ---------------------------------------------------------------------
\* Resuming an operation (SpecResume)
\* ---------------------------------------------------------------------
\* the plan is as a run that was killed or that failed leaves it: the
\* phases up to some phase are completed, the next may be failed or in
\* progress, the others are unstarted
InterruptedRun(p) ==
    \E k \in 0..NumPhases :
        /\ \A j \in PhaseIds : j <= k => p[j] = "completed"
        /\ \A j \in PhaseIds : j = k + 1 => p[j] \in Incomplete
        /\ \A j \in PhaseIds : j > k + 1 => p[j] = "unstarted"

\* the phases of the plan that are not completed, in the order of the plan
NotCompleted(p) == SelectSeq([k \in PhaseIds |-> k], LAMBDA k : p[k] # "completed")

\* C23: Execute with resume set, on the plan a run that was killed or
\* that failed left, continues from the first phase that is not
\* completed: it runs no phase that is persisted as completed, the first
\* phase it runs is the first that is not completed, and the states of
\* the phases it leaves are those a run from a new plan leaves, with the
\* same phase failing if one fails.
C23_ResumeContinues ==
    [][(/\ cmd'.name = "Execute"
        /\ IsResume(cmd'.phase)
        /\ fsmOps' # <<>>
        /\ \E failAt \in FailAts : Execute(cmd'.phase, TRUE, failAt))
       => LET ran == fsmOps'[1].ran IN
          /\ InterruptedRun(plan)
          /\ \A k \in Elems(ran) : plan[k] # "completed"
          /\ \A k \in PhaseIds : plan[k] = "completed" => plan'[k] = "completed"
          /\ NotCompleted(plan) # <<>> => ran # <<>> /\ ran[1] = NotCompleted(plan)[1]
          /\ \A failAt \in FailAts :
                (Execute(cmd'.phase, TRUE, failAt) /\ (failAt = 0 \/ failAt \in Elems(ran)))
                   => plan' = ExecutePlan(NewPlan, failAt).plan]_vars

\* a run was killed in its last phase, and the resumed operation ran that
\* phase only and left every phase completed
C23_ResumedAfterKill ==
    /\ cmd.name = "Execute"
    /\ IsResume(cmd.phase)
    /\ Len(fsmOps) = 1
    /\ fsmOps[1].ran = <<NumPhases>>
    /\ \A k \in PhaseIds : plan[k] = "completed"
    /\ ret = NoErr
    /\ opState = "created"

\* ---------------------------------------------------------------------
\* The requirements of a completed phase (SpecPlan)
\* ---------------------------------------------------------------------
RequiresDone(p) ==
    \A k \in PhaseIds :
        p[k] = "completed" => \A r \in Requires(k) : p[r] \in {"completed", "rolled-back"}

\* C24 as stated: in every reachable state of the plan every completed
\* phase has the phases it requires completed or rolled back.
C24_CompletedRequiresDone == RequiresDone(plan)

ForcedStep == cmd'.name = "Execute" /\ cmd'.phase.Force
OverrideStep == cmd'.name = "setConfigPhaseForOperation"
WorkFailedStep == cmd'.name \in {"Execute", "ExecuteOperation"} /\ ret'.kind = "phase-failed"

\* C24, amended: an execution without force, of the whole plan or of one
\* phase, takes a phase to completed only when the phases it requires are
\* completed; the property of the plan as a whole is kept by every step
\* but a forced request, an override of a state by SetPhase, and a request
\* in which the work of a phase fails, which leaves the phase failed
\* whatever phases that require it are completed.
C24_UnforcedCompletionRequiresDone ==
    [][/\ (cmd'.name \in {"Execute", "ExecuteOperation"} /\ ~ForcedStep) =>
             \A k \in PhaseIds :
                (plan[k] # "completed" /\ plan'[k] = "completed") => RequiresMet(plan', k)
       /\ (RequiresDone(plan) /\ ~RequiresDone(plan')) =>
             ForcedStep \/ OverrideStep \/ WorkFailedStep]_vars

\* the second phase was executed on request, without force, after the
\* first had been completed, and the plan is completed
C24_SecondPhaseExecutedUnforced ==
    /\ cmd.name = "Execute"
    /\ cmd.phase.ID = 2
    /\ ~cmd.phase.Force /\ ~cmd.phase.Rollback /\ ~IsResume(cmd.phase)
    /\ Len(fsmOps) = 1
    /\ fsmOps[1].ran = <<2>>
    /\ plan[1] = "completed"
    /\ plan[2] = "completed"

====
